---- MODULE Spec2Model ----
(***************************************************************************)
(* A model of diatribe's speaker-attribution pipeline:                     *)
(*   ingest -> stage 0 (normalize) -> heuristics (micro-turn collapse,     *)
(*   backchannel rules, floor holding) -> stage 1 (LM patches, validated)  *)
(*   -> stage 2 (reconciliation).                                          *)
(*                                                                         *)
(* Conventions.  Token and turn indices are 0-based as in the Rust code;   *)
(* the k-th element of a Rust Vec v is v[k+1] here.  token_id (a UUID in   *)
(* the code, unique per token) is the token's 0-based position.  turn_id   *)
(* "turn_<n>" and window_id "w_<n>" are the number n.  Confidences and     *)
(* percentages are integers in 1/100.  Floor scores are fixed-point        *)
(* numbers in 1/10000.  Option::None is None.  A HashMap's iteration       *)
(* order (std RandomState) is a nondeterministic choice.                   *)
(***************************************************************************)
EXTENDS Integers, Sequences, FiniteSets, TLC

VARIABLES
    words,        \* the input word list (DeepgramWord records)
    config,       \* the run's configuration (CLI flags and defaults)
    transcript,   \* TokenizedTranscript: [tokens, turns, speakers]
    stage,        \* position of the orchestrator (process_transcript)
    norm,         \* NormalizationResult: [windows, problem_window_indices, problem_zones]
    heur,         \* HeuristicsResult accumulated by apply_heuristics
    s1,           \* stage 1 driver: [pos, attempt, patches, failures, calls]
    hist          \* observations of earlier boundaries (history, not program state)

vars == <<words, config, transcript, stage, norm, heur, s1, hist>>

---------------------------------------------------------------------------
(* Bounds *)

MaxTokens == 3
MaxSpeaker == 1
MaxRelabels == 2
MaxLmRelabels == 1

None == 0 - 1

---------------------------------------------------------------------------
(* Generic helpers *)

Min(a, b) == IF a < b THEN a ELSE b
Max(a, b) == IF a > b THEN a ELSE b
SatSub(a, b) == IF a > b THEN a - b ELSE 0
Abs(a) == IF a < 0 THEN 0 - a ELSE a

\* (a..b).collect() of Rust: the indices a, a+1, ..., b-1
RangeSeq(a, b) == [k \in 1..SatSub(b, a) |-> a + k - 1]

SeqToSet(s) == {s[k] : k \in 1..Len(s)}

SetMin(S) == CHOOSE x \in S : \A y \in S : x <= y

RECURSIVE SortedSeq(_)
SortedSeq(S) == IF S = {} THEN <<>> ELSE <<SetMin(S)>> \o SortedSeq(S \ {SetMin(S)})

RECURSIVE FilterSeq(_, _)
FilterSeq(s, keep) ==
    IF s = <<>> THEN <<>>
    ELSE (IF Head(s) \in keep THEN <<Head(s)>> ELSE <<>>) \o FilterSeq(Tail(s), keep)

RECURSIVE Flatten(_)
Flatten(ss) == IF ss = <<>> THEN <<>> ELSE Head(ss) \o Flatten(Tail(ss))

---------------------------------------------------------------------------
(* models/token.rs *)

\* (x * 1000.0) as u64 on a time given in seconds: x is given here in units
\* of 1/10 ms; the cast truncates toward zero and saturates below at 0.
ToMs(x) == IF x < 0 THEN 0 ELSE x \div 10

\* Token::from_deepgram
FromDeepgram(word, index, turn_id) ==
    [ token_id          |-> index,
      word              |-> word.word,
      start_ms          |-> ToMs(word.start),
      end_ms            |-> ToMs(word.end),
      speaker           |-> word.speaker,
      speaker_conf      |-> IF word.speaker_confidence = None THEN 50
                            ELSE word.speaker_confidence,
      is_overlap_region |-> FALSE,
      turn_id           |-> turn_id,
      original_index    |-> index ]

\* Token::duration_ms, Turn::duration_ms, Window::duration_ms
DurationMs(x) == SatSub(x.end_ms, x.start_ms)

\* TokenizedTranscript::duration_ms
TranscriptDurationMs(tr) ==
    IF tr.tokens = <<>> THEN 0
    ELSE SatSub(tr.tokens[Len(tr.tokens)].end_ms, tr.tokens[1].start_ms)

\* TokenizedTranscript::get_token: the first token with that id, or None
GetTokenIndex(tokens, token_id) ==
    IF \E k \in 1..Len(tokens) : tokens[k].token_id = token_id
    THEN SetMin({k \in 1..Len(tokens) : tokens[k].token_id = token_id}) - 1
    ELSE None

Speakers(tokens) == [k \in 1..Len(tokens) |-> tokens[k].speaker]

\* WithSpeaker, faulty: the relabel also cuts the token to zero length
WithSpeakerTruncated(tokens, i, sp) ==
    [tokens EXCEPT ![i + 1].speaker = sp, ![i + 1].end_ms = tokens[i + 1].start_ms]

WithSpeaker(tokens, i, sp) == [tokens EXCEPT ![i + 1].speaker = sp]

---------------------------------------------------------------------------
(* io/input.rs *)

\* EmptyTranscript, faulty: the final turn is closed although there is no token
EmptyTranscriptOneTurn ==
    [ tokens |-> <<>>,
      turns |-> <<[turn_id |-> 0, speaker |-> 0, start_ms |-> 0, end_ms |-> 0,
                   token_indices |-> <<>>]>>,
      speakers |-> <<>> ]

\* the result of tokenize_deepgram_response for a response without words
EmptyTranscript == [tokens |-> <<>>, turns |-> <<>>, speakers |-> <<>>]

\* one iteration of the loop of tokenize_deepgram_response
IngestWord(acc, word, index) ==
    LET speaker_changed == acc.current_speaker # None /\ acc.current_speaker # word.speaker
        closes == speaker_changed /\ acc.tokens # <<>>
        turns1 == IF closes
                  THEN Append(acc.turns,
                         [ turn_id       |-> acc.current_turn_id,
                           speaker       |-> acc.current_speaker,
                           start_ms      |-> acc.current_turn_start_ms,
                           end_ms        |-> acc.tokens[Len(acc.tokens)].end_ms,
                           token_indices |-> RangeSeq(acc.current_turn_start_index,
                                                      Len(acc.tokens)) ])
                  ELSE acc.turns
        id1 == IF closes THEN acc.current_turn_id + 1 ELSE acc.current_turn_id
    IN  [ tokens  |-> Append(acc.tokens, FromDeepgram(word, index, id1)),
          turns   |-> turns1,
          current_turn_id |-> id1,
          current_speaker |-> word.speaker,
          current_turn_start_index |->
              IF speaker_changed THEN Len(acc.tokens) ELSE acc.current_turn_start_index,
          current_turn_start_ms |->
              IF speaker_changed \/ acc.current_speaker = None THEN ToMs(word.start)
              ELSE acc.current_turn_start_ms ]

RECURSIVE IngestLoop(_, _, _)
IngestLoop(ws, index, acc) ==
    IF index >= Len(ws) THEN acc
    ELSE IngestLoop(ws, index + 1, IngestWord(acc, ws[index + 1], index))

\* tokenize_deepgram_response
Tokenize(ws) ==
    IF ws = <<>> THEN EmptyTranscript
    ELSE LET acc == IngestLoop(ws, 0,
                      [ tokens |-> <<>>, turns |-> <<>>, current_turn_id |-> 0,
                        current_speaker |-> None, current_turn_start_index |-> 0,
                        current_turn_start_ms |-> 0 ])
             last == acc.tokens[Len(acc.tokens)]
         IN  [ tokens   |-> acc.tokens,
               turns    |-> Append(acc.turns,
                              [ turn_id       |-> acc.current_turn_id,
                                speaker       |-> acc.current_speaker,
                                start_ms      |-> acc.current_turn_start_ms,
                                end_ms        |-> last.end_ms,
                                token_indices |-> RangeSeq(acc.current_turn_start_index,
                                                           Len(acc.tokens)) ]),
               speakers |-> SortedSeq({ws[k].speaker : k \in 1..Len(ws)}) ]

---------------------------------------------------------------------------
(* heuristics/micro_turns.rs: rebuild_turns *)

\* RebuildStep, faulty: the new turn starts one token late
RebuildStepLate(tokens, i, acc) ==
    IF tokens[i + 1].speaker # acc.current_speaker
    THEN [ new_turns |-> Append(acc.new_turns,
                          [ turn_id       |-> acc.current_turn_id,
                            speaker       |-> acc.current_speaker,
                            start_ms      |-> acc.current_turn_start_ms,
                            end_ms        |-> IF i > 0 THEN tokens[i].end_ms
                                              ELSE acc.current_turn_start_ms,
                            token_indices |-> RangeSeq(acc.current_turn_start_index, i) ]),
           current_turn_id |-> acc.current_turn_id + 1,
           current_speaker |-> tokens[i + 1].speaker,
           current_turn_start_index |-> i + 1,
           current_turn_start_ms |-> tokens[i + 1].start_ms ]
    ELSE acc

\* first pass of rebuild_turns: one iteration of the loop over the tokens
RebuildStep(tokens, i, acc) ==
    IF tokens[i + 1].speaker # acc.current_speaker
    THEN [ new_turns |-> Append(acc.new_turns,
                          [ turn_id       |-> acc.current_turn_id,
                            speaker       |-> acc.current_speaker,
                            start_ms      |-> acc.current_turn_start_ms,
                            end_ms        |-> IF i > 0 THEN tokens[i].end_ms
                                              ELSE acc.current_turn_start_ms,
                            token_indices |-> RangeSeq(acc.current_turn_start_index, i) ]),
           current_turn_id |-> acc.current_turn_id + 1,
           current_speaker |-> tokens[i + 1].speaker,
           current_turn_start_index |-> i,
           current_turn_start_ms |-> tokens[i + 1].start_ms ]
    ELSE acc

RECURSIVE RebuildLoop(_, _, _)
RebuildLoop(tokens, i, acc) ==
    IF i >= Len(tokens) THEN acc
    ELSE RebuildLoop(tokens, i + 1, RebuildStep(tokens, i, acc))

\* the turn whose token_indices hold index i (second pass of rebuild_turns
\* writes each turn's id to its tokens; a later turn overwrites an earlier)
TurnIdOf(turns, i, old) ==
    LET hits == {k \in 1..Len(turns) : i \in SeqToSet(turns[k].token_indices)}
    IN  IF hits = {} THEN old
        ELSE turns[CHOOSE k \in hits : \A j \in hits : j <= k].turn_id

\* RebuildTurns, faulty: the second pass (turn ids of the tokens) is missing
RebuildTurnsFirstPass(tr) ==
    IF tr.tokens = <<>> THEN [tr EXCEPT !.turns = <<>>]
    ELSE LET acc == RebuildLoop(tr.tokens, 0,
                      [ new_turns |-> <<>>, current_turn_id |-> 0,
                        current_speaker |-> tr.tokens[1].speaker,
                        current_turn_start_index |-> 0,
                        current_turn_start_ms |-> tr.tokens[1].start_ms ])
         IN  [ tr EXCEPT !.turns =
                 Append(acc.new_turns,
                        [ turn_id       |-> acc.current_turn_id,
                          speaker       |-> acc.current_speaker,
                          start_ms      |-> acc.current_turn_start_ms,
                          end_ms        |-> tr.tokens[Len(tr.tokens)].end_ms,
                          token_indices |-> RangeSeq(acc.current_turn_start_index,
                                                     Len(tr.tokens)) ]) ]

\* rebuild_turns
RebuildTurns(tr) ==
    IF tr.tokens = <<>> THEN [tr EXCEPT !.turns = <<>>]
    ELSE LET acc == RebuildLoop(tr.tokens, 0,
                      [ new_turns |-> <<>>, current_turn_id |-> 0,
                        current_speaker |-> tr.tokens[1].speaker,
                        current_turn_start_index |-> 0,
                        current_turn_start_ms |-> tr.tokens[1].start_ms ])
             new_turns == Append(acc.new_turns,
                            [ turn_id       |-> acc.current_turn_id,
                              speaker       |-> acc.current_speaker,
                              start_ms      |-> acc.current_turn_start_ms,
                              end_ms        |-> tr.tokens[Len(tr.tokens)].end_ms,
                              token_indices |-> RangeSeq(acc.current_turn_start_index,
                                                         Len(tr.tokens)) ])
         IN  [ tr EXCEPT
                 !.tokens = [k \in 1..Len(tr.tokens) |->
                               [tr.tokens[k] EXCEPT
                                  !.turn_id = TurnIdOf(new_turns, k - 1, tr.tokens[k].turn_id)]],
                 !.turns = new_turns ]

---------------------------------------------------------------------------
(* stages/stage0_normalize.rs *)

\* the indices i (ascending) of the tokens t = tokens[i] with P[t], P being the
\* closure of the filter tabulated over the tokens:
\* tokens.iter().enumerate().filter(P).map(|(i, _)| i).collect()
IndicesWhere(tokens, P) ==
    FilterSeq(RangeSeq(0, Len(tokens)), {i \in 0..(Len(tokens) - 1) : P[tokens[i + 1]]})

\* the test of detect_overlap_regions on the pair (tokens[i], tokens[i+1])
OverlapPair(tokens, i) ==
    /\ 0 <= i
    /\ i + 1 < Len(tokens)
    /\ tokens[i + 1].speaker # tokens[i + 2].speaker
    /\ \/ SatSub(tokens[i + 2].start_ms, tokens[i + 1].end_ms) <= 100
       \/ tokens[i + 2].start_ms < tokens[i + 1].end_ms

\* detect_overlap_regions: both tokens of every such pair are marked
DetectOverlapRegions(tr) ==
    [ tr EXCEPT !.tokens =
        [k \in 1..Len(tr.tokens) |->
           [tr.tokens[k] EXCEPT !.is_overlap_region =
              tr.tokens[k].is_overlap_region
                 \/ OverlapPair(tr.tokens, k - 1) \/ OverlapPair(tr.tokens, k - 2)]] ]

\* number of speaker changes between consecutive tokens of the index list idx
SwitchesIn(tokens, idx) ==
    Cardinality({k \in 1..(Len(idx) - 1) :
                    tokens[idx[k] + 1].speaker # tokens[idx[k + 1] + 1].speaker})

RECURSIVE JitterLoop(_, _, _)
JitterLoop(tr, window_start, cfg) ==
    IF window_start >= TranscriptDurationMs(tr) THEN <<>>
    ELSE LET window_end == window_start + 10000
             tokens_in_window ==
                 IndicesWhere(tr.tokens,
                    [t \in SeqToSet(tr.tokens) |-> t.start_ms >= window_start /\ t.start_ms < window_end])
             zone ==
                 IF /\ Len(tokens_in_window) >= 2
                    /\ SwitchesIn(tr.tokens, tokens_in_window) > cfg.max_switches_per_10s
                 THEN << [ start_ms |-> tr.tokens[tokens_in_window[1] + 1].start_ms,
                           end_ms   |-> tr.tokens[tokens_in_window[Len(tokens_in_window)] + 1].end_ms,
                           problem_type  |-> "SpeakerJitter",
                           token_indices |-> tokens_in_window ] >>
                 ELSE <<>>
         IN  zone \o JitterLoop(tr, window_start + 5000, cfg)

\* detect_speaker_jitter
DetectSpeakerJitter(tr, cfg) ==
    IF tr.tokens = <<>> THEN <<>> ELSE JitterLoop(tr, 0, cfg)

RECURSIVE ShortTurnZones(_, _)
ShortTurnZones(turns, cfg) ==
    IF turns = <<>> THEN <<>>
    ELSE (IF DurationMs(Head(turns)) < cfg.min_turn_duration_ms
          THEN << [ start_ms |-> Head(turns).start_ms,
                    end_ms   |-> Head(turns).end_ms,
                    problem_type  |-> "ShortTurn",
                    token_indices |-> Head(turns).token_indices ] >>
          ELSE <<>>) \o ShortTurnZones(Tail(turns), cfg)

\* detect_short_turns
DetectShortTurns(tr, cfg) == ShortTurnZones(tr.turns, cfg)

RECURSIVE OverlapAdjacentLoop(_, _, _)
OverlapAdjacentLoop(tr, overlap_idx, cfg) ==
    IF overlap_idx = <<>> THEN <<>>
    ELSE LET o == tr.tokens[Head(overlap_idx) + 1]
             zone_start == SatSub(o.start_ms, cfg.overlap_proximity_ms)
             zone_end == o.end_ms + cfg.overlap_proximity_ms
             affected ==
                 IndicesWhere(tr.tokens,
                    [t \in SeqToSet(tr.tokens) |->
                        /\ ~t.is_overlap_region
                        /\ t.end_ms >= zone_start
                        /\ t.start_ms <= zone_end])
         IN  (IF affected # <<>>
              THEN << [ start_ms |-> zone_start, end_ms |-> zone_end,
                        problem_type  |-> "OverlapAdjacent",
                        token_indices |-> affected ] >>
              ELSE <<>>) \o OverlapAdjacentLoop(tr, Tail(overlap_idx), cfg)

\* detect_overlap_adjacent
DetectOverlapAdjacent(tr, cfg) ==
    OverlapAdjacentLoop(tr,
        IndicesWhere(tr.tokens, [t \in SeqToSet(tr.tokens) |-> t.is_overlap_region]), cfg)

LowConfidenceZone(tr, current_zone_tokens) ==
    [ start_ms |-> tr.tokens[current_zone_tokens[1] + 1].start_ms,
      end_ms   |-> tr.tokens[current_zone_tokens[Len(current_zone_tokens)] + 1].end_ms,
      problem_type  |-> "LowConfidence",
      token_indices |-> current_zone_tokens ]

RECURSIVE LowConfidenceLoop(_, _, _, _)
LowConfidenceLoop(tr, i, current_zone_tokens, cfg) ==
    IF i >= Len(tr.tokens)
    THEN IF current_zone_tokens # <<>>
         THEN << LowConfidenceZone(tr, current_zone_tokens) >> ELSE <<>>
    ELSE IF tr.tokens[i + 1].speaker_conf < cfg.min_speaker_confidence
         THEN LowConfidenceLoop(tr, i + 1, Append(current_zone_tokens, i), cfg)
         ELSE IF current_zone_tokens # <<>>
              THEN << LowConfidenceZone(tr, current_zone_tokens) >>
                      \o LowConfidenceLoop(tr, i + 1, <<>>, cfg)
              ELSE LowConfidenceLoop(tr, i + 1, <<>>, cfg)

\* detect_low_confidence
DetectLowConfidence(tr, cfg) == LowConfidenceLoop(tr, 0, <<>>, cfg)

\* detect_problem_zones
DetectProblemZones(tr, cfg) ==
    DetectSpeakerJitter(tr, cfg) \o DetectShortTurns(tr, cfg)
        \o DetectOverlapAdjacent(tr, cfg) \o DetectLowConfidence(tr, cfg)

RECURSIVE DedupSeq(_)
DedupSeq(s) ==
    IF s = <<>> THEN <<>>
    ELSE LET init == DedupSeq(SubSeq(s, 1, Len(s) - 1))
         IN  IF s[Len(s)] \in SeqToSet(init) THEN init ELSE Append(init, s[Len(s)])

\* check_problem_intersection: the kinds of the zones that intersect the window
CheckProblemIntersection(window_start, window_end, problem_zones) ==
    LET hit == {k \in 1..Len(problem_zones) :
                   /\ problem_zones[k].start_ms < window_end
                   /\ problem_zones[k].end_ms > window_start}
        types == DedupSeq([j \in 1..Len(FilterSeq(RangeSeq(1, Len(problem_zones) + 1), hit)) |->
                   problem_zones[FilterSeq(RangeSeq(1, Len(problem_zones) + 1), hit)[j]].problem_type])
    IN  [is_problem_zone |-> types # <<>>, problem_types |-> types]

RECURSIVE WindowLoop(_, _, _, _, _)
WindowLoop(tr, cfg, problem_zones, window_start, window_id) ==
    IF window_start >= tr.tokens[1].start_ms + TranscriptDurationMs(tr) THEN <<>>
    ELSE LET window_end == window_start + cfg.window_size_ms
             token_indices ==
                 IndicesWhere(tr.tokens,
                    [t \in SeqToSet(tr.tokens) |-> t.start_ms >= window_start /\ t.start_ms < window_end])
             anchor_start == SatSub(window_start, cfg.anchor_size_ms)
             anchor_end == window_end + cfg.anchor_size_ms
             p == CheckProblemIntersection(window_start, window_end, problem_zones)
             w == [ window_id |-> window_id,
                    start_ms  |-> window_start,
                    end_ms    |-> window_end,
                    token_indices |-> token_indices,
                    anchor_prefix_indices |->
                        IndicesWhere(tr.tokens,
                           [t \in SeqToSet(tr.tokens) |-> t.start_ms >= anchor_start /\ t.start_ms < window_start]),
                    anchor_suffix_indices |->
                        IndicesWhere(tr.tokens,
                           [t \in SeqToSet(tr.tokens) |-> t.start_ms >= window_end /\ t.start_ms < anchor_end]),
                    is_problem_zone |-> p.is_problem_zone,
                    problem_types   |-> p.problem_types ]
         IN  IF token_indices # <<>>
             THEN <<w>> \o WindowLoop(tr, cfg, problem_zones,
                                      window_start + cfg.stride_ms, window_id + 1)
             ELSE WindowLoop(tr, cfg, problem_zones, window_start + cfg.stride_ms, window_id)

\* BuildWindows, faulty: the first window starts at 0, not at the first token
BuildWindowsFromZero(tr, cfg, problem_zones) ==
    LET windows == IF tr.tokens = <<>> THEN <<>>
                   ELSE WindowLoop(tr, cfg, problem_zones, 0, 0)
    IN  [ windows |-> windows,
          problem_window_indices |->
              IF cfg.filter_problem_zones
              THEN FilterSeq(RangeSeq(0, Len(windows)),
                             {i \in 0..(Len(windows) - 1) : windows[i + 1].is_problem_zone})
              ELSE RangeSeq(0, Len(windows)) ]

\* build_windows
BuildWindows(tr, cfg, problem_zones) ==
    LET windows == IF tr.tokens = <<>> THEN <<>>
                   ELSE WindowLoop(tr, cfg, problem_zones, tr.tokens[1].start_ms, 0)
    IN  [ windows |-> windows,
          problem_window_indices |->
              IF cfg.filter_problem_zones
              THEN FilterSeq(RangeSeq(0, Len(windows)),
                             {i \in 0..(Len(windows) - 1) : windows[i + 1].is_problem_zone})
              ELSE RangeSeq(0, Len(windows)) ]

\* Window::center_ms
CenterMs(w) == (w.start_ms + w.end_ms) \div 2

---------------------------------------------------------------------------
(* heuristics/micro_turns.rs: collapse_micro_turns *)

\* the turns (0-based positions, ascending) that are candidates for collapse
MicroTurns(turns, max_duration_ms) ==
    FilterSeq(RangeSeq(0, Len(turns)),
              {k \in 0..(Len(turns) - 1) : DurationMs(turns[k + 1]) < max_duration_ms})

\* ToRelabel, faulty: the first and the last token of the list are left out
ToRelabelInner(tokens, token_indices, sp) ==
    FilterSeq(token_indices,
              {i \in SeqToSet(SubSeq(token_indices, 2, Len(token_indices) - 1)) :
                  tokens[i + 1].speaker # sp})

\* the tokens of token_indices, in order, whose speaker differs from sp
ToRelabel(tokens, token_indices, sp) ==
    FilterSeq(token_indices,
              {i \in SeqToSet(token_indices) : tokens[i + 1].speaker # sp})

\* MicroStep, faulty: the turn after is not looked at
MicroStepBeforeOnly(turns, turn_idx, acc) ==
    LET before_speaker == IF turn_idx > 0 THEN turns[turn_idx].speaker ELSE None
        hit == ToRelabel(acc.tokens, turns[turn_idx + 1].token_indices, before_speaker)
    IN  IF before_speaker # None
        THEN [ acc EXCEPT
                 !.tokens = [k \in 1..Len(acc.tokens) |->
                               IF (k - 1) \in SeqToSet(hit)
                               THEN [acc.tokens[k] EXCEPT !.speaker = before_speaker]
                               ELSE acc.tokens[k]],
                 !.changed_indices = acc.changed_indices \o hit ]
        ELSE acc

\* body of the loop over micro_turns; the turn list read is the one of entry
MicroStep(turns, turn_idx, acc) ==
    LET before_speaker == IF turn_idx > 0 THEN turns[turn_idx].speaker ELSE None
        after_speaker == IF turn_idx + 1 < Len(turns) THEN turns[turn_idx + 2].speaker
                         ELSE None
        hit == ToRelabel(acc.tokens, turns[turn_idx + 1].token_indices, before_speaker)
    IN  IF before_speaker # None /\ after_speaker # None
        THEN IF before_speaker = after_speaker
             THEN [ acc EXCEPT
                      !.tokens = [k \in 1..Len(acc.tokens) |->
                                    IF (k - 1) \in SeqToSet(hit)
                                    THEN [acc.tokens[k] EXCEPT !.speaker = before_speaker]
                                    ELSE acc.tokens[k]],
                      !.changed_indices = acc.changed_indices \o hit ]
             ELSE [acc EXCEPT !.needs_llm = TRUE]
        ELSE acc

RECURSIVE MicroLoop(_, _, _)
MicroLoop(turns, micro_turns, acc) ==
    IF micro_turns = <<>> THEN acc
    ELSE MicroLoop(turns, Tail(micro_turns), MicroStep(turns, Head(micro_turns), acc))

\* RuleResult, faulty: the turns are not rebuilt after a relabel
RuleResultStale(tr, acc) ==
    [ transcript       |-> [tr EXCEPT !.tokens = acc.tokens],
      tokens_relabeled |-> Len(acc.changed_indices),
      changed_indices  |-> acc.changed_indices,
      needs_llm        |-> acc.needs_llm ]

\* the return value of a heuristic rule with the transcript it leaves
RuleResult(tr, acc) ==
    [ transcript |-> IF acc.changed_indices # <<>>
                     THEN RebuildTurns([tr EXCEPT !.tokens = acc.tokens])
                     ELSE [tr EXCEPT !.tokens = acc.tokens],
      tokens_relabeled |-> Len(acc.changed_indices),
      changed_indices  |-> acc.changed_indices,
      needs_llm        |-> acc.needs_llm ]

\* collapse_micro_turns
CollapseMicroTurns(tr, max_duration_ms) ==
    RuleResult(tr,
        MicroLoop(tr.turns, MicroTurns(tr.turns, max_duration_ms),
                  [tokens |-> tr.tokens, changed_indices |-> <<>>, needs_llm |-> FALSE]))

---------------------------------------------------------------------------
(* heuristics/backchannels.rs *)

\* str::to_lowercase on the words of the model's vocabulary
ToLowercase(w) ==
    CASE w = "Yeah" -> "yeah"
      [] w = "OK" -> "ok"
      [] OTHER -> w

\* InContext, faulty: full containment instead of intersection
InContextContained(t, c, context_ms) ==
    /\ t.start_ms >= SatSub(c.start_ms, context_ms)
    /\ t.end_ms <= c.end_ms + context_ms

\* "any overlap" of token t with the context window of token c
InContext(t, c, context_ms) ==
    /\ t.start_ms < c.end_ms + context_ms
    /\ t.end_ms > SatSub(c.start_ms, context_ms)

\* speaker_words of find_floor_holder: words per speaker around token_idx
SpeakerWords(tokens, token_idx, context_ms, sp) ==
    Cardinality({k \in 1..Len(tokens) :
                    /\ k - 1 # token_idx
                    /\ InContext(tokens[k], tokens[token_idx + 1], context_ms)
                    /\ tokens[k].speaker = sp})

\* find_floor_holder: max_by_key over a HashMap returns the last maximal entry
\* in iteration order, i.e. any speaker with the greatest count
FindFloorHolder(tokens, token_idx, context_ms) ==
    LET present == {sp \in SeqToSet(Speakers(tokens)) :
                       SpeakerWords(tokens, token_idx, context_ms, sp) > 0}
    IN  IF present = {} THEN {None}
        ELSE {sp \in present :
                \A o \in present : SpeakerWords(tokens, token_idx, context_ms, o)
                                      <= SpeakerWords(tokens, token_idx, context_ms, sp)}

\* FindListener, faulty: the floor holder counts as a listener
FindListenerAnySpeaker(tokens, token_idx, floor_holder) ==
    LET hits == {k \in 1..Len(tokens) : InContext(tokens[k], tokens[token_idx + 1], 10000)}
    IN  IF hits = {} THEN None ELSE tokens[SetMin(hits)].speaker

\* find_listener: the speaker of the first token in the 10 s context that is
\* not the floor holder
FindListener(tokens, token_idx, floor_holder) ==
    LET hits == {k \in 1..Len(tokens) :
                    /\ InContext(tokens[k], tokens[token_idx + 1], 10000)
                    /\ tokens[k].speaker # floor_holder}
    IN  IF hits = {} THEN None ELSE tokens[SetMin(hits)].speaker

\* first pass of apply_backchannel_rules: the candidates (index, speaker)
BackchannelCandidates(tokens, backchannel_words) ==
    LET idx == IndicesWhere(tokens,
                  [t \in SeqToSet(tokens) |->
                      /\ ToLowercase(t.word) \in backchannel_words
                      /\ ~(~t.is_overlap_region /\ t.speaker_conf >= 70)])
    IN  [j \in 1..Len(idx) |-> [i |-> idx[j], current_speaker |-> tokens[idx[j] + 1].speaker]]

\* body of the second pass for one candidate, the floor holder being holder
BackchannelStep(acc, cand, holder) ==
    IF holder # None /\ cand.current_speaker = holder
    THEN LET listener == FindListener(acc.tokens, cand.i, holder)
         IN  IF listener # None
             THEN [ acc EXCEPT !.tokens = WithSpeaker(acc.tokens, cand.i, listener),
                               !.changed_indices = Append(acc.changed_indices, cand.i) ]
             ELSE [acc EXCEPT !.needs_llm = TRUE]
    ELSE acc

\* second pass: every result the iteration orders of the maps allow
RECURSIVE BackchannelLoop(_, _)
BackchannelLoop(candidates, acc) ==
    IF candidates = <<>> THEN {acc}
    ELSE UNION { BackchannelLoop(Tail(candidates),
                                 BackchannelStep(acc, Head(candidates), holder)) :
                 holder \in FindFloorHolder(acc.tokens, Head(candidates).i, 5000) }

\* apply_backchannel_rules: the set of its possible results
ApplyBackchannelRules(tr, backchannel_words) ==
    { RuleResult(tr, acc) :
        acc \in BackchannelLoop(BackchannelCandidates(tr.tokens, backchannel_words),
                   [tokens |-> tr.tokens, changed_indices |-> <<>>, needs_llm |-> FALSE]) }

---------------------------------------------------------------------------
(* heuristics/floor_holding.rs *)

\* exp(-0.2 * dt / 1000) in 1/10000, rounded to nearest, for dt = 0, 100,
\* 200, ... ms (HeuristicsConfig::default().floor_decay_per_second = 0.2)
ExpTable ==
    << 10000, 9802, 9608, 9418, 9231, 9048, 8869, 8694, 8521, 8353, 8187, 8025, 7866, 7711,
       7558, 7408, 7261, 7118, 6977, 6839, 6703, 6570, 6440, 6313, 6188, 6065, 5945, 5827,
       5712, 5599, 5488, 5379, 5273, 5169, 5066, 4966, 4868, 4771, 4677, 4584, 4493, 4404,
       4317, 4232, 4148, 4066, 3985, 3906, 3829, 3753, 3679, 3606, 3535, 3465, 3396, 3329,
       3263, 3198, 3135, 3073, 3012, 2952, 2894, 2837, 2780, 2725, 2671, 2618, 2567, 2516,
       2466, 2417, 2369, 2322, 2276, 2231, 2187, 2144, 2101, 2060, 2019, 1979, 1940, 1901,
       1864, 1827, 1791, 1755, 1720, 1686, 1653, 1620, 1588, 1557, 1526, 1496, 1466, 1437,
       1409, 1381, 1353, 1327, 1300, 1275, 1249, 1225, 1200, 1177, 1153, 1130, 1108, 1086,
       1065, 1044, 1023, 1003, 983, 963, 944, 926, 907, 889, 872, 854, 837, 821,
       805, 789, 773, 758, 743, 728, 714, 699, 686, 672, 659, 646, 633, 620,
       608, 596, 584, 573, 561, 550, 539, 529, 518, 508, 498, 488, 478, 469,
       460, 450, 442, 433, 424, 416, 408, 400, 392, 384, 376, 369, 362, 354,
       347, 340, 334, 327, 321, 314, 308, 302, 296, 290, 284, 279, 273, 268,
       263, 257, 252, 247, 242, 238, 233, 228, 224, 219, 215, 211, 207, 202,
       198, 194, 191, 187, 183, 180, 176, 172, 169, 166, 162, 159, 156, 153,
       150, 147, 144, 141, 138, 136, 133, 130, 128, 125, 123, 120, 118, 116,
       113, 111, 109, 107, 105, 103, 101, 99, 97, 95, 93, 91, 89, 87,
       86, 84, 82, 81, 79, 78, 76, 74, 73, 72, 70, 69, 67, 66,
       65, 63, 62, 61, 60, 59, 57, 56, 55, 54, 53, 52, 51, 50,
       49, 48, 47, 46, 45, 44, 43, 43, 42, 41, 40, 39, 38, 38,
       37, 36, 36, 35, 34, 33, 33, 32, 32, 31, 30, 30, 29, 29,
       28, 27, 27, 26, 26, 25, 25, 24, 24, 23, 23, 22, 22, 22,
       21, 21, 20, 20, 19, 19, 19, 18, 18, 18, 17, 17, 17, 16,
       16, 16, 15, 15, 15, 14, 14, 14, 14, 13, 13, 13, 13, 12,
       12, 12, 12, 11, 11, 11, 11, 10, 10, 10, 10, 10, 9, 9,
       9, 9, 9, 9, 8, 8, 8, 8, 8, 8, 7, 7, 7, 7,
       7, 7, 7, 6, 6, 6, 6, 6, 6, 6, 6, 6, 5, 5,
       5, 5, 5, 5, 5, 5, 5, 5, 4, 4, 4, 4, 4, 4,
       4, 4, 4, 4, 4, 4, 3, 3, 3, 3, 3, 3, 3, 3,
       3, 3, 3, 3, 3, 3, 3, 3, 3, 2, 2, 2, 2, 2,
       2, 2, 2, 2, 2, 2, 2, 2, 2, 2, 2, 2, 2, 2,
       2, 2, 2, 2, 2, 2, 2, 1, 1, 1, 1, 1, 1, 1,
       1, 1, 1, 1, 1, 1, 1, 1, 1, 1, 1, 1, 1, 1,
       1, 1, 1, 1, 1, 1, 1, 1, 1, 1, 1, 1, 1, 1,
       1, 1, 1, 1, 1, 1, 1, 1, 1, 1, 1, 1, 1, 1,
       1, 1, 1, 1, 1, 1, 0, 0, 0, 0 >>

\* the decay factor of FloorState::update for dt_ms elapsed (a multiple of 100)
ExpDecay(dt_ms) ==
    IF dt_ms \div 100 + 1 <= Len(ExpTable) THEN ExpTable[dt_ms \div 100 + 1] ELSE 0

\* FloorState::new
NewFloorState == [scores |-> << >>, current_time_ms |-> 0]

ScoreOf(scores, sp) == IF sp \in DOMAIN scores THEN scores[sp] ELSE 0

MaxScore(scores) ==
    IF DOMAIN scores = {} THEN 0
    ELSE LET m == CHOOSE k \in DOMAIN scores : \A j \in DOMAIN scores : scores[j] <= scores[k]
         IN  Max(0, scores[m])

\* FloorState::update
FloorUpdate(fs, speaker, duration_ms, timestamp_ms) ==
    LET decay == ExpDecay(SatSub(timestamp_ms, fs.current_time_ms))
        boosted == [k \in DOMAIN fs.scores \cup {speaker} |->
                      (ScoreOf(fs.scores, k) * decay) \div 10000
                         + (IF k = speaker THEN 5 * duration_ms ELSE 0)]
        max_score == MaxScore(boosted)
    IN  [ scores |-> IF max_score > 10000
                     THEN [k \in DOMAIN boosted |-> (boosted[k] * 10000) \div max_score]
                     ELSE boosted,
          current_time_ms |-> timestamp_ms ]

\* FloorState::floor_holder: max_by over a HashMap returns the last maximal
\* entry in iteration order, i.e. any eligible speaker with the greatest score
FloorHolder(fs, min_score) ==
    LET eligible == {k \in DOMAIN fs.scores : fs.scores[k] >= min_score}
    IN  IF eligible = {} THEN {None}
        ELSE {k \in eligible : \A j \in eligible : fs.scores[j] <= fs.scores[k]}

\* the length of the maximal run of tokens around token_idx with its speaker
ConsecutiveCount(tokens, token_idx) ==
    LET same(k) == tokens[k + 1].speaker = tokens[token_idx + 1].speaker
        lo == SetMin({a \in 0..token_idx : \A k \in a..token_idx : same(k)})
        hi == CHOOSE b \in token_idx..(Len(tokens) - 1) :
                 /\ \A k \in token_idx..b : same(k)
                 /\ (b + 1 < Len(tokens) => ~same(b + 1))
    IN  hi - lo + 1

\* is_rapid_floor_flip, the floor holder being holder
IsRapidFloorFlip(tokens, token_idx, holder) ==
    /\ holder # None
    /\ tokens[token_idx + 1].speaker # holder
    /\ ConsecutiveCount(tokens, token_idx) <= 2

\* should_relabel_to_floor_holder
ShouldRelabelToFloorHolder(tokens, token_idx, floor_holder) ==
    /\ token_idx > 0
    /\ token_idx + 1 < Len(tokens)
    /\ tokens[token_idx].speaker = floor_holder
    /\ tokens[token_idx + 2].speaker = floor_holder

\* body of the second pass of apply_floor_holding for token i, after the
\* update of the floor state, the floor holder being holder
FloorStep(acc, i, holder, cfg) ==
    IF acc.tokens[i + 1].speaker_conf >= 80 THEN acc
    ELSE IF IsRapidFloorFlip(acc.tokens, i, holder)
         THEN IF ShouldRelabelToFloorHolder(acc.tokens, i, holder)
              THEN [ acc EXCEPT !.tokens = WithSpeaker(acc.tokens, i, holder),
                                !.changed_indices = Append(acc.changed_indices, i) ]
              ELSE [acc EXCEPT !.needs_llm = TRUE]
         ELSE acc

RECURSIVE FloorLoop(_, _, _, _)
FloorLoop(i, fs, acc, cfg) ==
    IF i >= Len(acc.tokens) THEN {acc}
    ELSE LET t == acc.tokens[i + 1]
             fs1 == FloorUpdate(fs, t.speaker, DurationMs(t), t.start_ms)
         IN  UNION { FloorLoop(i + 1, fs1, FloorStep(acc, i, holder, cfg), cfg) :
                     holder \in FloorHolder(fs1, cfg.min_floor_score) }

\* apply_floor_holding: the set of its possible results
ApplyFloorHolding(tr, cfg) ==
    { RuleResult(tr, acc) :
        acc \in FloorLoop(0, NewFloorState,
                   [tokens |-> tr.tokens, changed_indices |-> <<>>, needs_llm |-> FALSE],
                   cfg) }

---------------------------------------------------------------------------
(* heuristics/mod.rs *)

\* the tail of apply_heuristics: total_changed sorted and deduplicated
HeuristicsResult(micro_result, backchannel_result, floor_result) ==
    LET total_changed == SortedSeq(SeqToSet(micro_result.changed_indices
                                            \o backchannel_result.changed_indices
                                            \o floor_result.changed_indices))
    IN  [ tokens_relabeled |-> Len(total_changed),
          changed_indices  |-> total_changed,
          needs_llm        |-> \/ micro_result.needs_llm
                               \/ backchannel_result.needs_llm
                               \/ floor_result.needs_llm ]

\* apply_heuristics: the set of its possible results on transcript tr
ApplyHeuristics(tr, cfg) ==
    LET m == CollapseMicroTurns(tr, cfg.micro_turn_max_ms)
    IN  UNION { { [transcript |-> f.transcript, result |-> HeuristicsResult(m, b, f)] :
                    f \in ApplyFloorHolding(b.transcript, cfg) } :
                b \in ApplyBackchannelRules(m.transcript, cfg.backchannel_words) }

---------------------------------------------------------------------------
(* models/window.rs *)

\* Window::proximity_to_center, in units of 1/duration_ms of the window:
\* max(0, 1 - |t - center| / (duration / 2)) = max(0, duration - 2|t - center|) / duration.
\* Every window of build_windows has the duration window_size_ms, so the
\* weights of one run share their denominator and are compared exactly.
ProximityToCenter(w, timestamp_ms) ==
    IF DurationMs(w) = 0 THEN 1
    ELSE Max(0, DurationMs(w) - 2 * Abs(timestamp_ms - CenterMs(w)))

---------------------------------------------------------------------------
(* llm/validation.rs *)

\* EditBudget, faulty: floor + 1 instead of ceil
EditBudgetFloorPlusOne(n, percent) == (n * percent) \div 100 + 1

\* (n as f64 * percent / 100.0).ceil() as usize
EditBudget(n, percent) == (n * percent + 99) \div 100

\* number of speaker changes between consecutive entries of a speaker list
Switches(sps) == Cardinality({k \in 1..(Len(sps) - 1) : sps[k] # sps[k + 1]})

\* number of turns shorter than 700 ms that intersect the window
ShortTurnsIn(tr, window) ==
    Cardinality({k \in 1..Len(tr.turns) :
                    /\ tr.turns[k].start_ms < window.end_ms
                    /\ tr.turns[k].end_ms > window.start_ms
                    /\ DurationMs(tr.turns[k]) < 700})

\* the window's indices that name a token: filter_map(|&i| tokens.get(i))
WindowTokens(tr, window) ==
    FilterSeq(window.token_indices, 0..(Len(tr.tokens) - 1))

\* compute_cost
ComputeCost(tr, window) ==
    LET idx == WindowTokens(tr, window)
    IN  5 * Switches([j \in 1..Len(idx) |-> tr.tokens[idx[j] + 1].speaker])
          + 2 * ShortTurnsIn(tr, window)

\* the map token_id -> new_speaker collected from the relabels: a later
\* relabel of the same token replaces an earlier one
RelabelOf(token_relabels, token_id, default) ==
    LET hits == {k \in 1..Len(token_relabels) : token_relabels[k].token_id = token_id}
    IN  IF hits = {} THEN default
        ELSE token_relabels[CHOOSE k \in hits : \A j \in hits : j <= k].new_speaker

\* compute_cost_after_patch
ComputeCostAfterPatch(tr, window, patch) ==
    LET idx == WindowTokens(tr, window)
    IN  5 * Switches([j \in 1..Len(idx) |->
                        RelabelOf(patch.token_relabels, tr.tokens[idx[j] + 1].token_id,
                                  tr.tokens[idx[j] + 1].speaker)])
          + 2 * ShortTurnsIn(tr, window)

\* the token ids of the window's editable tokens
WindowTokenIds(tr, window) ==
    {tr.tokens[i + 1].token_id : i \in SeqToSet(WindowTokens(tr, window))}

\* the checks of validate_patch, each TRUE when it records an error
ErrViolations(patch) == patch.violations # <<>>

\* ErrNotInWindow, faulty: the anchors count as part of the window
ErrNotInWindowOrAnchors(patch, tr, window) ==
    \E k \in 1..Len(patch.token_relabels) :
        patch.token_relabels[k].token_id \notin
            {tr.tokens[i + 1].token_id :
                i \in (SeqToSet(window.token_indices)
                         \cup SeqToSet(window.anchor_prefix_indices)
                         \cup SeqToSet(window.anchor_suffix_indices))
                      \cap (0..(Len(tr.tokens) - 1))}

ErrNotInWindow(patch, tr, window) ==
    \E k \in 1..Len(patch.token_relabels) :
        patch.token_relabels[k].token_id \notin WindowTokenIds(tr, window)

ErrSpeaker(patch, cfg) ==
    \E k \in 1..Len(patch.token_relabels) :
        patch.token_relabels[k].new_speaker \notin cfg.allowed_speakers

ErrBudget(patch, window, cfg) ==
    Len(patch.token_relabels)
        > EditBudget(Len(window.token_indices), cfg.max_edit_budget_percent)

\* ErrCost, faulty: an increase equal to the limit is rejected too
ErrCostAtLimit(patch, tr, window, cfg) ==
    ComputeCostAfterPatch(tr, window, patch) - ComputeCost(tr, window)
        >= cfg.max_cost_increase

ErrCost(patch, tr, window, cfg) ==
    ComputeCostAfterPatch(tr, window, patch) - ComputeCost(tr, window)
        > cfg.max_cost_increase

\* validate_patch(...).is_valid
ValidatePatch(patch, tr, window, cfg) ==
    ~ \/ ErrViolations(patch)
      \/ ErrNotInWindow(patch, tr, window)
      \/ ErrSpeaker(patch, cfg)
      \/ ErrBudget(patch, window, cfg)
      \/ ErrCost(patch, tr, window, cfg)

---------------------------------------------------------------------------
(* stages/stage2_reconcile.rs *)

\* the window a patch names: windows.iter().find(|w| w.window_id == id)
FindWindow(windows, window_id) ==
    LET hits == {k \in 1..Len(windows) : windows[k].window_id = window_id}
    IN  IF hits = {} THEN None ELSE SetMin(hits)

\* the candidates one patch contributes, in the order of its relabels
PatchCandidates(tr, windows, patch) ==
    LET wi == FindWindow(windows, patch.window_id)
    IN  IF wi = None THEN <<>>
        ELSE [k \in 1..Len(patch.token_relabels) |->
                LET relabel == patch.token_relabels[k]
                    ti == GetTokenIndex(tr.tokens, relabel.token_id)
                    token_timestamp == IF ti = None THEN CenterMs(windows[wi])
                                       ELSE tr.tokens[ti + 1].start_ms
                IN  [ token_id  |-> relabel.token_id,
                      speaker   |-> relabel.new_speaker,
                      window_id |-> patch.window_id,
                      weight    |-> ProximityToCenter(windows[wi], token_timestamp) ]]

\* the candidate map of execute_stage2, as the list of all candidates in
\* the order they are pushed; the entry of token_id is its sub-list
CollectCandidates(tr, windows, patches) ==
    Flatten([p \in 1..Len(patches) |-> PatchCandidates(tr, windows, patches[p])])

RECURSIVE CandidatesOf(_, _)
CandidatesOf(all, token_id) ==
    IF all = <<>> THEN <<>>
    ELSE (IF Head(all).token_id = token_id THEN <<Head(all)>> ELSE <<>>)
            \o CandidatesOf(Tail(all), token_id)

RECURSIVE SumWeights(_, _)
SumWeights(cands, sp) ==
    IF cands = <<>> THEN 0
    ELSE (IF Head(cands).speaker = sp THEN Head(cands).weight ELSE 0)
            + SumWeights(Tail(cands), sp)

\* weighted_vote: max_by over a HashMap returns the last maximal entry in
\* iteration order, i.e. any speaker with the greatest summed weight
WeightedVote(cands) ==
    LET sps == {cands[k].speaker : k \in 1..Len(cands)}
    IN  IF sps = {} THEN {0}
        ELSE {sp \in sps : \A o \in sps : SumWeights(cands, o) <= SumWeights(cands, sp)}

\* StableSpanProtected, faulty: confidence alone never protects a token
StableSpanUnprotected(token, cands, cfg) ==
    /\ token.speaker_conf >= cfg.stable_span_confidence
    /\ cands = <<>>

\* the stable-span test: TRUE when the token is protected from the vote
StableSpanProtected(token, cands, cfg) ==
    /\ token.speaker_conf >= cfg.stable_span_confidence
    /\ Cardinality({k \in 1..Len(cands) : cands[k].speaker # token.speaker})
          < cfg.min_windows_for_override

\* body of the voting loop for the token at index i, the vote's winner
\* being final_speaker
VoteStep(acc, i, cands, final_speaker, cfg) ==
    IF StableSpanProtected(acc.tokens[i + 1], cands, cfg) THEN acc
    ELSE [ acc EXCEPT
             !.conflicts_resolved =
                 IF Cardinality({cands[k].speaker : k \in 1..Len(cands)}) > 1
                 THEN acc.conflicts_resolved + 1 ELSE acc.conflicts_resolved,
             !.tokens = IF final_speaker # acc.tokens[i + 1].speaker
                        THEN WithSpeaker(acc.tokens, i, final_speaker) ELSE acc.tokens,
             !.tokens_relabeled =
                 IF final_speaker # acc.tokens[i + 1].speaker
                 THEN acc.tokens_relabeled + 1 ELSE acc.tokens_relabeled ]

\* the voting loop.  It visits the tokens that have candidates; an iteration
\* reads and writes only its own token, so the map's iteration order does
\* not show and the tokens are visited here by index.
RECURSIVE VoteLoop(_, _, _, _)
VoteLoop(i, all, acc, cfg) ==
    IF i >= Len(acc.tokens) THEN {acc}
    ELSE LET cands == CandidatesOf(all, acc.tokens[i + 1].token_id)
         IN  IF cands = <<>> THEN VoteLoop(i + 1, all, acc, cfg)
             ELSE UNION { VoteLoop(i + 1, all, VoteStep(acc, i, cands, final_speaker, cfg), cfg) :
                          final_speaker \in WeightedVote(cands) }

\* the turns (0-based positions, ascending) shorter than the minimum
ShortTurns(turns, cfg) ==
    FilterSeq(RangeSeq(0, Len(turns)),
              {k \in 0..(Len(turns) - 1) : DurationMs(turns[k + 1]) < cfg.min_turn_duration_ms})

\* body of the loop of apply_constraints over the short turns
ConstraintStep(turns, turn_idx, tokens) ==
    LET prev_speaker == IF turn_idx > 0 THEN turns[turn_idx].speaker ELSE None
        next_speaker == IF turn_idx + 1 < Len(turns) THEN turns[turn_idx + 2].speaker
                        ELSE None
    IN  IF /\ prev_speaker # None
           /\ next_speaker # None
           /\ prev_speaker = next_speaker
           /\ turns[turn_idx + 1].speaker # prev_speaker
        THEN [k \in 1..Len(tokens) |->
                IF (k - 1) \in SeqToSet(turns[turn_idx + 1].token_indices)
                THEN [tokens[k] EXCEPT !.speaker = prev_speaker]
                ELSE tokens[k]]
        ELSE tokens

\* the loop of apply_constraints: short_turns.iter().rev()
RECURSIVE ConstraintLoop(_, _, _)
ConstraintLoop(turns, short_turns, tokens) ==
    IF short_turns = <<>> THEN tokens
    ELSE ConstraintLoop(turns, SubSeq(short_turns, 1, Len(short_turns) - 1),
                        ConstraintStep(turns, short_turns[Len(short_turns)], tokens))

\* apply_constraints
ApplyConstraints(tr, cfg) ==
    RebuildTurns([tr EXCEPT !.tokens =
                     ConstraintLoop(tr.turns, ShortTurns(tr.turns, cfg), tr.tokens)])

\* execute_stage2: the set of its possible results; voted is the token list
\* as the voting loop leaves it
ExecuteStage2(tr, windows, patches, cfg) ==
    { [ transcript |-> IF acc.tokens_relabeled > 0
                       THEN ApplyConstraints(RebuildTurns([tr EXCEPT !.tokens = acc.tokens]), cfg)
                       ELSE [tr EXCEPT !.tokens = acc.tokens],
        tokens_relabeled   |-> acc.tokens_relabeled,
        conflicts_resolved |-> acc.conflicts_resolved,
        voted |-> acc.tokens ] :
      acc \in VoteLoop(0, CollectCandidates(tr, windows, patches),
                 [tokens |-> tr.tokens, tokens_relabeled |-> 0, conflicts_resolved |-> 0],
                 cfg) }

---------------------------------------------------------------------------
(* main.rs: the configuration of a run *)

\* the defaults of the CLI flags (main.rs) and of the config structs
DefaultConfig ==
    [ max_speakers            |-> 4,
      max_edit_budget_percent |-> 3,
      window_size_ms          |-> 45000,
      stride_ms               |-> 15000,
      anchor_size_ms          |-> 5000,
      filter_problem_zones    |-> TRUE,
      min_turn_duration_ms    |-> 700,
      heuristics_only         |-> FALSE,
      max_switches_per_10s    |-> 3,
      overlap_proximity_ms    |-> 2000,
      min_speaker_confidence  |-> 60,
      micro_turn_max_ms       |-> 300,
      backchannel_words       |-> {"yeah", "yes", "yep", "uh-huh", "mhm", "mm-hmm", "okay",
                                   "ok", "right", "sure", "hmm", "hm", "ah", "oh", "uh", "um"},
      min_floor_score         |-> 3000,
      allowed_speakers        |-> 0..3,
      max_cost_increase       |-> 10,
      max_retries             |-> 2,
      stable_span_confidence  |-> 80,
      min_windows_for_override |-> 2 ]

\* --max-speakers 2 --edit-budget 50 --window-size-ms 3000 --window-stride-ms 1000
SmallWindowConfig ==
    [ DefaultConfig EXCEPT !.max_speakers = 2,
                           !.allowed_speakers = 0..1,
                           !.max_edit_budget_percent = 50,
                           !.window_size_ms = 3000,
                           !.stride_ms = 1000 ]

\* --max-speakers 2 --edit-budget 50 --window-size-ms 1000 --window-stride-ms 1000
NarrowWindowConfig ==
    [ SmallWindowConfig EXCEPT !.window_size_ms = 1000, !.stride_ms = 1000 ]

---------------------------------------------------------------------------
(* The inputs: Deepgram word lists.  Times are in 1/10 ms (see ToMs).      *)

GapChoices == {1000, 6000}
DurChoices == {2000, 10000}
ConfChoices == {None, 90}
WordChoices == {"Yeah", "so"}

EndOf(ws) == IF ws = <<>> THEN 0 ELSE ws[Len(ws)].end

\* the word lists of n words, one after the other, the first starting at 0
RECURSIVE WordLists(_, _, _, _, _)
WordLists(n, W, G, D, C) ==
    IF n = 0 THEN {<<>>}
    ELSE { Append(p[1],
              [ word    |-> p[2],
                start   |-> EndOf(p[1]) + (IF p[1] = <<>> THEN 0 ELSE p[3]),
                end     |-> EndOf(p[1]) + (IF p[1] = <<>> THEN 0 ELSE p[3]) + p[4],
                speaker |-> p[5],
                speaker_confidence |-> p[6] ]) :
           p \in WordLists(n - 1, W, G, D, C) \X W \X G \X D \X (0..MaxSpeaker) \X C }

WordListsUpTo(n, W, G, D, C) == UNION {WordLists(k, W, G, D, C) : k \in 0..n}

\* the inputs of the end-to-end runs
PipelineInputs == WordListsUpTo(MaxTokens, WordChoices, {1000}, DurChoices, ConfChoices)

---------------------------------------------------------------------------
(* The LM client (llm/client.rs) is outside the model: a call fails or     *)
(* returns any patch of the tool schema.                                   *)

UnknownTokenId(tr) == Len(tr.tokens)

RelabelChoices(tr) ==
    [token_id : 0..UnknownTokenId(tr), new_speaker : 0..(MaxSpeaker + 1)]

RECURSIVE SeqsUpTo(_, _)
SeqsUpTo(S, n) ==
    IF n = 0 THEN {<<>>}
    ELSE SeqsUpTo(S, n - 1)
           \cup {Append(s, x) : s \in {q \in SeqsUpTo(S, n - 1) : Len(q) = n - 1}, x \in S}

LmPatches(tr, window, max_relabels) ==
    [ window_id      : {window.window_id, window.window_id + 1},
      token_relabels : SeqsUpTo(RelabelChoices(tr), max_relabels),
      turn_edits     : {0, 1},
      violations     : {<<>>, <<"changed a word">>} ]

\* WindowPatch::is_empty
PatchIsEmpty(patch) == patch.token_relabels = <<>> /\ patch.turn_edits = 0

---------------------------------------------------------------------------
(* The state machine: process_transcript of main.rs *)

NoResult == <<>>

InitWith(inputs, configs) ==
    /\ words \in inputs
    /\ config \in configs
    /\ transcript = EmptyTranscript
    /\ stage = "start"
    /\ norm = [windows |-> <<>>, problem_window_indices |-> <<>>, problem_zones |-> <<>>]
    /\ heur = [micro |-> NoResult, backchannel |-> NoResult, floor |-> NoResult,
               result |-> NoResult]
    /\ s1 = [pos |-> 0, attempt |-> 0, patches |-> <<>>, validation_failures |-> 0]
    /\ hist = [before2 |-> NoResult, voted |-> NoResult, result2 |-> NoResult,
               rerun |-> NoResult, shadow |-> NoResult, shuffled |-> NoResult,
               validated |-> NoResult]

\* the default run, and runs with --window-size-ms 3000 --window-stride-ms 1000
\* and a Stage1Config of max_retries = 1, where three one-second words give
\* three problem windows
Init ==
    \/ InitWith(PipelineInputs, {DefaultConfig})
    \/ InitWith({ws \in PipelineInputs :
                    /\ Len(ws) = MaxTokens
                    /\ ws[1].speaker = 0
                    /\ \A k \in 1..Len(ws) :
                          ws[k].word = "so" /\ ws[k].speaker_confidence = None},
                {[SmallWindowConfig EXCEPT !.max_retries = 1]})

\* parse_deepgram_file
Ingest ==
    /\ stage = "start"
    /\ transcript' = Tokenize(words)
    /\ stage' = "ingested"
    /\ UNCHANGED <<words, config, norm, heur, s1, hist>>

\* normalize
Normalize ==
    /\ stage = "ingested"
    /\ LET tr1 == DetectOverlapRegions(transcript)
           problem_zones == DetectProblemZones(tr1, config)
           windows == BuildWindows(tr1, config, problem_zones)
       IN  /\ transcript' = tr1
           /\ norm' = [ windows |-> windows.windows,
                        problem_window_indices |-> windows.problem_window_indices,
                        problem_zones |-> problem_zones ]
    /\ stage' = "normalized"
    /\ UNCHANGED <<words, config, heur, s1, hist>>

Summary(r) ==
    [ tokens_relabeled |-> r.tokens_relabeled,
      changed_indices  |-> r.changed_indices,
      needs_llm        |-> r.needs_llm ]

\* apply_heuristics, step 1
CollapseMicroTurnsStep ==
    /\ stage = "normalized"
    /\ LET r == CollapseMicroTurns(transcript, config.micro_turn_max_ms)
       IN  /\ transcript' = r.transcript
           /\ heur' = [heur EXCEPT !.micro = <<Summary(r)>>]
    /\ stage' = "micro"
    /\ UNCHANGED <<words, config, norm, s1, hist>>

\* apply_heuristics, step 2
ApplyBackchannelRulesStep ==
    /\ stage = "micro"
    /\ \E r \in ApplyBackchannelRules(transcript, config.backchannel_words) :
          /\ transcript' = r.transcript
          /\ heur' = [heur EXCEPT !.backchannel = <<Summary(r)>>]
    /\ stage' = "backchannel"
    /\ UNCHANGED <<words, config, norm, s1, hist>>

\* apply_heuristics, step 3 and its result
ApplyFloorHoldingStep ==
    /\ stage = "backchannel"
    /\ \E r \in ApplyFloorHolding(transcript, config) :
          /\ transcript' = r.transcript
          /\ heur' = [heur EXCEPT
                        !.floor = <<Summary(r)>>,
                        !.result = <<HeuristicsResult(heur.micro[1], heur.backchannel[1], r)>>]
    /\ stage' = "heuristics"
    /\ UNCHANGED <<words, config, norm, s1, hist>>

\* the LLM stages are skipped
SkipLLM ==
    /\ stage = "heuristics"
    /\ config.heuristics_only \/ ~heur.result[1].needs_llm
    /\ stage' = "done"
    /\ UNCHANGED <<words, config, transcript, norm, heur, s1, hist>>

\* execute_stage1 is entered
BeginStage1 ==
    /\ stage = "heuristics"
    /\ ~config.heuristics_only
    /\ heur.result[1].needs_llm
    /\ s1' = [pos |-> 0, attempt |-> 0, patches |-> <<>>, validation_failures |-> 0]
    /\ stage' = IF norm.problem_window_indices = <<>> THEN "stage1_done" ELSE "stage1"
    /\ UNCHANGED <<words, config, transcript, norm, heur, hist>>

\* the window process_window is working on
CurrentWindow == norm.windows[norm.problem_window_indices[s1.pos + 1] + 1]

\* execute_stage1 moves to the next problem window, or returns
NextWindow(patches, failures) ==
    /\ s1' = [ pos |-> s1.pos + 1, attempt |-> 0, patches |-> patches,
               validation_failures |-> failures ]
    /\ stage' = IF s1.pos + 1 >= Len(norm.problem_window_indices)
                THEN "stage1_done" ELSE "stage1"

\* AttemptFailed, faulty: one call more than max_retries + 1 is allowed
AttemptFailedOneMore ==
    IF s1.attempt > config.max_retries
    THEN NextWindow(s1.patches, s1.validation_failures + 1)
    ELSE /\ s1' = [s1 EXCEPT !.attempt = s1.attempt + 1]
         /\ stage' = stage

\* an attempt of process_window that did not yield a valid patch
AttemptFailed ==
    IF s1.attempt >= config.max_retries
    THEN NextWindow(s1.patches, s1.validation_failures + 1)
    ELSE /\ s1' = [s1 EXCEPT !.attempt = s1.attempt + 1]
         /\ stage' = stage

\* LmError, faulty: the error of the last attempt is propagated and ends the run
LmErrorAborts ==
    /\ stage = "stage1"
    /\ IF s1.attempt >= config.max_retries
       THEN s1' = s1 /\ stage' = "done"
       ELSE AttemptFailed
    /\ UNCHANGED <<words, config, transcript, norm, heur, hist>>

\* process_window: the client call fails
LmError ==
    /\ stage = "stage1"
    /\ AttemptFailed
    /\ UNCHANGED <<words, config, transcript, norm, heur, hist>>

\* process_window: the client call returns a patch, which is validated
LmPatch ==
    /\ stage = "stage1"
    /\ \E patch \in LmPatches(transcript, CurrentWindow, MaxLmRelabels) :
          IF ValidatePatch(patch, transcript, CurrentWindow, config)
          THEN NextWindow(IF PatchIsEmpty(patch) THEN s1.patches
                          ELSE Append(s1.patches, patch),
                          s1.validation_failures)
          ELSE AttemptFailed
    /\ UNCHANGED <<words, config, transcript, norm, heur, hist>>

\* stage 1 collected no patch: stage 2 is skipped
SkipStage2 ==
    /\ stage = "stage1_done"
    /\ s1.patches = <<>>
    /\ stage' = "done"
    /\ UNCHANGED <<words, config, transcript, norm, heur, s1, hist>>

\* execute_stage2
ExecuteStage2Step ==
    /\ stage = "stage1_done"
    /\ s1.patches # <<>>
    /\ \E r \in ExecuteStage2(transcript, norm.windows, s1.patches, config) :
          /\ transcript' = r.transcript
          /\ hist' = [hist EXCEPT
                        !.before2 = <<transcript>>,
                        !.voted = <<r.voted>>,
                        !.result2 = <<[ tokens_relabeled   |-> r.tokens_relabeled,
                                        conflicts_resolved |-> r.conflicts_resolved ]>>]
    /\ stage' = "stage2"
    /\ UNCHANGED <<words, config, norm, heur, s1>>

Next ==
    \/ Ingest
    \/ Normalize
    \/ CollapseMicroTurnsStep
    \/ ApplyBackchannelRulesStep
    \/ ApplyFloorHoldingStep
    \/ SkipLLM
    \/ BeginStage1
    \/ LmError
    \/ LmPatch
    \/ SkipStage2
    \/ ExecuteStage2Step

Spec == Init /\ [][Next]_vars

---------------------------------------------------------------------------
(* Properties of the end-to-end runs (Spec) *)

\* what ingest produced for the run's input
IngestedTokens == Tokenize(words).tokens

\* a token without the three fields the pipeline is allowed to rewrite
Frame(t) == [t EXCEPT !.speaker = 0, !.turn_id = 0, !.is_overlap_region = FALSE]

\* C1 (word preservation): at every stage boundary from ingest on, the
\* transcript holds the tokens ingest produced, in the same number and
\* order, each with its word, start_ms, end_ms (and every other field) as
\* ingested; only speaker, turn_id and is_overlap_region may differ.
WordPreservation ==
    stage # "start" =>
        /\ Len(transcript.tokens) = Len(IngestedTokens)
        /\ \A k \in 1..Len(IngestedTokens) :
              /\ transcript.tokens[k].word = IngestedTokens[k].word
              /\ transcript.tokens[k].start_ms = IngestedTokens[k].start_ms
              /\ transcript.tokens[k].end_ms = IngestedTokens[k].end_ms
              /\ Frame(transcript.tokens[k]) = Frame(IngestedTokens[k])

\* stage 2 has run and the labels differ from the ingested ones, on tokens
\* one of which lies in an overlap region
WordPreservationWitness ==
    /\ stage = "stage2"
    /\ hist.result2[1].tokens_relabeled > 0
    /\ Speakers(transcript.tokens) # Speakers(IngestedTokens)
    /\ \E k \in 1..Len(transcript.tokens) : transcript.tokens[k].is_overlap_region

\* C2 (turn partition): at every stage boundary the token_indices of the
\* turns, concatenated in turn order, are exactly 0, 1, ..., n-1.
TurnPartition ==
    Flatten([k \in 1..Len(transcript.turns) |-> transcript.turns[k].token_indices])
        = RangeSeq(0, Len(transcript.tokens))

\* the micro-turn rule has merged the three turns of a three-token input
TurnPartitionWitness ==
    /\ stage = "micro"
    /\ heur.micro[1].tokens_relabeled > 0
    /\ Len(transcript.tokens) = 3
    /\ Len(transcript.turns) = 1

\* C3 (turn coherence): at every stage boundary every token of a turn has
\* the turn's speaker and adjacent turns have different speakers.
TurnCoherence ==
    /\ \A k \in 1..Len(transcript.turns) :
          \A i \in SeqToSet(transcript.turns[k].token_indices) :
              /\ i + 1 \in 1..Len(transcript.tokens)
              /\ transcript.tokens[i + 1].speaker = transcript.turns[k].speaker
    /\ \A k \in 1..(Len(transcript.turns) - 1) :
          transcript.turns[k].speaker # transcript.turns[k + 1].speaker

\* the backchannel rule has relabeled a token
TurnCoherenceWitness ==
    /\ stage = "backchannel"
    /\ heur.backchannel[1].tokens_relabeled > 0
    /\ Len(transcript.turns) >= 1

\* C4 (back-reference consistency): at every stage boundary every token lies
\* in exactly one turn and carries that turn's turn_id, and the turn ids are
\* turn_0, turn_1, ... in turn order.
BackReferenceConsistency ==
    /\ \A k \in 1..Len(transcript.turns) : transcript.turns[k].turn_id = k - 1
    /\ \A i \in 0..(Len(transcript.tokens) - 1) :
          LET holders == {k \in 1..Len(transcript.turns) :
                             i \in SeqToSet(transcript.turns[k].token_indices)}
          IN  /\ Cardinality(holders) = 1
              /\ \A k \in holders :
                    transcript.tokens[i + 1].turn_id = transcript.turns[k].turn_id

\* stage 2 has relabeled a token and the transcript has two turns
BackReferenceConsistencyWitness ==
    /\ stage = "stage2"
    /\ hist.result2[1].tokens_relabeled > 0
    /\ Len(transcript.turns) = 2

---------------------------------------------------------------------------
(* validate_patch on its own: any window of the normalized transcript, or  *)
(* an empty window, and any patch of the tool schema                       *)

\* a Deepgram word, times in 1/10 ms
Word(start, end, word, speaker, conf) ==
    [ word |-> word, start |-> start, end |-> end, speaker |-> speaker,
      speaker_confidence |-> conf ]

\* word lists that start at 0, and short ones that start 500 ms later
ValidateInputs ==
    WordListsUpTo(MaxTokens, {"so"}, {1000}, DurChoices, {None})
        \cup { [k \in 1..Len(ws) |-> [ws[k] EXCEPT !.start = @ + 5000, !.end = @ + 5000]] :
                 ws \in WordListsUpTo(2, {"so"}, {1000}, DurChoices, {None}) }

\* a recording of 120 s: eight words, the fourth starting at 47 s
Transcript120 ==
    << Word(0, 100000, "so", 0, 90), Word(160000, 290000, "so", 1, 90),
       Word(320000, 440000, "so", 0, 90), Word(470000, 580000, "so", 1, 90),
       Word(610000, 740000, "so", 0, 90), Word(770000, 890000, "so", 1, 90),
       Word(920000, 1040000, "so", 0, 90), Word(1080000, 1200000, "so", 1, 90) >>

\* the window of the unit tests of llm/validation.rs: no token at all
EmptyWindow ==
    [ window_id |-> 0, start_ms |-> 0, end_ms |-> 1000, token_indices |-> <<>>,
      anchor_prefix_indices |-> <<>>, anchor_suffix_indices |-> <<>>,
      is_problem_zone |-> FALSE, problem_types |-> <<>> ]

InitValidate ==
    \/ InitWith(ValidateInputs, {DefaultConfig, SmallWindowConfig, NarrowWindowConfig})
    \/ InitWith({Transcript120}, {DefaultConfig})
    \/ InitWith({[k \in 1..4 |-> Word(3000 * (k - 1), 3000 * (k - 1) + 2000, "so", 0, 90)]},
                {SmallWindowConfig})
    \/ InitWith({[k \in 1..5 |-> Word(off + 3000 * (k - 1), off + 3000 * (k - 1) + 2000, "so",
                                      IF k = 5 THEN last ELSE k % 2, 90)] :
                    off \in {0, 200000}, last \in 0..1},
                {DefaultConfig})
    \/ InitWith({ <<Word(0, 0, "so", 0, None)>>,
                   <<Word(0, 10000, "so", 0, None), Word(20000, 20000, "so", 1, None)>> },
                {DefaultConfig, NarrowWindowConfig})

\* process_window, one attempt: the patch the client returned is validated
\* against the window
ValidatePatchStep ==
    /\ stage = "normalized"
    /\ \E window \in SeqToSet(norm.windows) \cup {EmptyWindow} :
       \E patch \in LmPatches(transcript, window, MaxRelabels) :
          /\ patch.window_id = window.window_id
          /\ patch.turn_edits = 0
          /\ hist' = [hist EXCEPT !.validated =
                        <<[ window   |-> window,
                            patch    |-> patch,
                            is_valid |-> ValidatePatch(patch, transcript, window, config) ]>>]
    /\ stage' = "validated"
    /\ UNCHANGED <<words, config, transcript, norm, heur, s1>>

NextValidate ==
    \/ Ingest
    \/ Normalize
    \/ ValidatePatchStep

SpecValidate == InitValidate /\ [][NextValidate]_vars

\* the token ids a list of token indices names
TokenIdsAt(idxs) ==
    {transcript.tokens[i + 1].token_id :
        i \in SeqToSet(idxs) \cap (0..(Len(transcript.tokens) - 1))}

\* C5 (anchor read-only): a patch that passed validate_patch for a window
\* relabels only tokens of the window's editable token_indices: none of its
\* relabels names an anchor-prefix token, an anchor-suffix token or a
\* token_id the transcript does not have.
AnchorReadOnly ==
    (stage = "validated" /\ hist.validated[1].is_valid) =>
        LET v == hist.validated[1]
        IN  \A k \in 1..Len(v.patch.token_relabels) :
               LET id == v.patch.token_relabels[k].token_id
               IN  /\ id \in TokenIdsAt(v.window.token_indices)
                   /\ id \notin TokenIdsAt(v.window.anchor_prefix_indices)
                   /\ id \notin TokenIdsAt(v.window.anchor_suffix_indices)
                   /\ GetTokenIndex(transcript.tokens, id) # None

\* a patch with a relabel was accepted for a window that has an anchor
\* prefix and an anchor suffix
AnchorReadOnlyWitness ==
    /\ stage = "validated"
    /\ hist.validated[1].is_valid
    /\ hist.validated[1].patch.token_relabels # <<>>
    /\ hist.validated[1].window.anchor_prefix_indices # <<>>
    /\ hist.validated[1].window.anchor_suffix_indices # <<>>

\* C6 (edit budget): a patch that passed validate_patch for a window with n
\* editable tokens has at most ceil(n * max_edit_budget_percent / 100)
\* relabels (k <= ceil(x) iff k < x + 1), and none when n = 0.
EditBudgetRespected ==
    (stage = "validated" /\ hist.validated[1].is_valid) =>
        LET v == hist.validated[1]
            n == Len(v.window.token_indices)
            count == Len(v.patch.token_relabels)
        IN  /\ 100 * count < n * config.max_edit_budget_percent + 100
            /\ n = 0 => count = 0

\* a patch that uses the whole budget of two relabels was accepted
EditBudgetRespectedWitness ==
    /\ stage = "validated"
    /\ hist.validated[1].is_valid
    /\ Len(hist.validated[1].patch.token_relabels) = 2
    /\ Len(hist.validated[1].window.token_indices) = 3
    /\ config.max_edit_budget_percent = 50

---------------------------------------------------------------------------
(* apply_heuristics on its own: run, run again on the result, and run      *)
(* afresh on the same input                                                *)

\* the micro-turn scenario
Scenario1 ==
    << Word(0, 5000, "hello", 0, None), Word(6000, 10000, "there", 0, None),
       Word(11000, 12000, "yes", 1, None), Word(13000, 16000, "how", 0, None),
       Word(17000, 20000, "are", 0, None) >>

\* the backchannel scenario
Scenario2 ==
    << Word(0, 2000, "so", 0, None), Word(3000, 4000, "i", 0, None),
       Word(5000, 7000, "think", 0, None), Word(8000, 9000, "yeah", 0, 50),
       Word(10000, 12000, "that", 0, None) >>

\* the floor-holding scenario: a long run, then one sandwiched token
Scenario3 ==
    << Word(0, 10000, "we", 0, 90), Word(11000, 20000, "should", 0, 90),
       Word(21000, 30000, "go", 0, 90), Word(31000, 36000, "no", 1, 60),
       Word(37000, 45000, "now", 0, 90) >>

\* a rapid exchange: three short words between two long ones
Scenario4 ==
    << Word(0, 10000, "we", 1, 90), Word(11000, 13000, "no", 0, 90),
       Word(14000, 16000, "so", 1, 90), Word(17000, 19000, "no", 0, 90),
       Word(20000, 30000, "go", 1, 90) >>

\* the scenarios under every assignment of speakers to their words
ScenarioInputs ==
    { [k \in 1..Len(scn) |-> [scn[k] EXCEPT !.speaker = sps[k]]] :
        scn \in {Scenario1, Scenario2, Scenario3, Scenario4},
        sps \in [1..5 -> 0..MaxSpeaker] }

\* three words of up to three speakers: a word of 100 ms or 500 ms between
\* two long ones; and a backchannel 2 s, 7 s, 10.5 s or 12 s into the
\* recording, a long word at its start and another right after it
ThreeSpeakerInputs ==
    { << Word(0, 10000, "we", sps[1], 90), Word(11000, 11000 + d, "yes", sps[2], 90),
         Word(17000, 27000, "go", sps[3], 90) >> :
        sps \in [1..3 -> 0..(MaxSpeaker + 1)], d \in {1000, 5000} }
    \cup
    { << Word(0, 10000, "so", sps[1], 90), Word(g, g + 2000, "yeah", sps[2], None),
         Word(g + 3000, g + 13000, "so", sps[3], 90) >> :
        sps \in [1..3 -> 0..(MaxSpeaker + 1)], g \in {20000, 70000, 105000, 120000} }

HeuristicsInputs ==
    WordListsUpTo(MaxTokens, WordChoices, GapChoices, DurChoices, ConfChoices)
        \cup ScenarioInputs \cup ThreeSpeakerInputs

\* the inputs above, and a micro-turn of three words of 50 ms between two
\* long words, under two assignments of speakers
InitHeuristics ==
    \/ InitWith(HeuristicsInputs, {DefaultConfig})
    \/ InitWith({ << Word(0, 10000, "we", 0, 90), Word(11000, 11500, "no", 1, 90),
                      Word(12000, 12500, "no", 1, 90), Word(13000, 13500, "no", 1, 90),
                      Word(14000, 24000, "go", sp, 90) >> : sp \in {0, 2} },
                {DefaultConfig})

\* what a run of apply_heuristics returned
Outcome(r) ==
    [ speakers         |-> Speakers(r.transcript.tokens),
      tokens_relabeled |-> r.result.tokens_relabeled,
      needs_llm        |-> r.result.needs_llm ]

\* apply_heuristics is applied to the transcript apply_heuristics produced
RerunHeuristics ==
    /\ stage = "heuristics"
    /\ \E r \in ApplyHeuristics(transcript, config) :
          hist' = [hist EXCEPT !.rerun = <<Outcome(r)>>]
    /\ stage' = "rerun"
    /\ UNCHANGED <<words, config, transcript, norm, heur, s1>>

\* another run of apply_heuristics on the transcript the first run was given
CompareRun ==
    /\ stage = "heuristics"
    /\ \E r \in ApplyHeuristics(DetectOverlapRegions(Tokenize(words)), config) :
          hist' = [hist EXCEPT !.shadow = <<Outcome(r)>>]
    /\ stage' = "compared"
    /\ UNCHANGED <<words, config, transcript, norm, heur, s1>>

NextHeuristics ==
    \/ Ingest
    \/ Normalize
    \/ CollapseMicroTurnsStep
    \/ ApplyBackchannelRulesStep
    \/ ApplyFloorHoldingStep
    \/ RerunHeuristics
    \/ CompareRun

SpecHeuristics == InitHeuristics /\ [][NextHeuristics]_vars

\* C7 (fixed point): apply_heuristics applied to the result of
\* apply_heuristics reports tokens_relabeled = 0 and leaves every token's
\* speaker unchanged.
FixedPoint ==
    stage = "rerun" =>
        /\ hist.rerun[1].tokens_relabeled = 0
        /\ hist.rerun[1].speakers = Speakers(transcript.tokens)

\* C9 (heuristics determinism): two runs of apply_heuristics on the same
\* transcript with the same config give every token the same speaker and
\* the same needs_llm flag.
HeuristicsDeterminism ==
    stage = "compared" =>
        /\ hist.shadow[1].speakers = Speakers(transcript.tokens)
        /\ hist.shadow[1].needs_llm = heur.result[1].needs_llm

---------------------------------------------------------------------------
(* execute_stage2 on its own: any non-empty list of patches for the        *)
(* windows of the normalized transcript, then the same patches reordered   *)

ReconcileInputs == WordListsUpTo(MaxTokens, {"so"}, {1000}, DurChoices, ConfChoices)

\* the stable-span scenario: a confident short word between two long ones,
\* under every assignment of speakers
Scenario5 ==
    << Word(0, 10000, "so", 0, None), Word(11000, 13000, "no", 0, 90),
       Word(14000, 24000, "then", 0, None) >>

StableSpanInputs ==
    { [k \in 1..3 |-> [Scenario5[k] EXCEPT !.speaker = sps[k]]] :
        sps \in [1..3 -> 0..MaxSpeaker] }

\* the inputs above, and the rapid exchange with a third speaker on its
\* last word
InitReconcile ==
    \/ InitWith(ReconcileInputs, {DefaultConfig})
    \/ InitWith(StableSpanInputs, {SmallWindowConfig})
    \/ InitWith({[Scenario4 EXCEPT ![5].speaker = 2, ![5].speaker_confidence = None]},
                {DefaultConfig})

\* a patch as stage 1 hands it on
PatchOf(window_id, token_relabels) ==
    [ window_id |-> window_id, token_relabels |-> token_relabels,
      turn_edits |-> 0, violations |-> <<>> ]

\* the lists of patches, each with a relabel, that hold at most n relabels
\* in all; a relabel names a token of the transcript
RECURSIVE PatchLists(_, _, _)
PatchLists(tr, windows, n) ==
    IF n = 0 THEN {<<>>}
    ELSE LET relabels == [token_id : 0..(Len(tr.tokens) - 1), new_speaker : 0..(MaxSpeaker + 1)]
         IN  {<<>>} \cup
             UNION { { <<PatchOf(windows[w].window_id, rs)>> \o rest :
                         rest \in PatchLists(tr, windows, n - Len(rs)) } :
                     w \in 1..Len(windows),
                     rs \in SeqsUpTo(relabels, n) \ {<<>>} }

\* the patches handed to the reconciler
SupplyPatches ==
    /\ stage = "normalized"
    /\ \E patches \in PatchLists(transcript, norm.windows, MaxRelabels) \ {<<>>} :
          s1' = [s1 EXCEPT !.patches = patches]
    /\ stage' = "stage1_done"
    /\ UNCHANGED <<words, config, transcript, norm, heur, hist>>

\* the reorderings of a sequence
Reordered(s) == {[k \in 1..Len(s) |-> s[f[k]]] : f \in Permutations(1..Len(s))}

RECURSIVE RelabelShuffles(_)
RelabelShuffles(patches) ==
    IF patches = <<>> THEN {<<>>}
    ELSE { <<[Head(patches) EXCEPT !.token_relabels = rs]>> \o rest :
             rs \in Reordered(Head(patches).token_relabels),
             rest \in RelabelShuffles(Tail(patches)) }

\* the same patches in any order, the relabels of each in any order
ShuffledPatches(patches) == UNION {RelabelShuffles(q) : q \in Reordered(patches)}

\* execute_stage2 is run on the transcript stage 2 was given, with the
\* patches reordered
ReconcileShuffled ==
    /\ stage = "stage2"
    /\ \E patches \in ShuffledPatches(s1.patches) :
       \E r \in ExecuteStage2(hist.before2[1], norm.windows, patches, config) :
          hist' = [hist EXCEPT !.shuffled = <<Speakers(r.transcript.tokens)>>]
    /\ stage' = "shuffled"
    /\ UNCHANGED <<words, config, transcript, norm, heur, s1>>

NextReconcile ==
    \/ Ingest
    \/ Normalize
    \/ SupplyPatches
    \/ ExecuteStage2Step
    \/ ReconcileShuffled

SpecReconcile == InitReconcile /\ [][NextReconcile]_vars

\* C8 (reconciler order-independence): execute_stage2 on the same
\* transcript, windows and patches, the patches and the relabels inside
\* them in another order, gives every token the same final speaker.
OrderIndependence ==
    stage = "shuffled" => hist.shuffled[1] = Speakers(transcript.tokens)

\* the speakers proposed for the token with id token_id by the relabels of
\* the patches that name a window of the run, one entry per relabel
Proposals(token_id) ==
    LET window_ids == {norm.windows[w].window_id : w \in 1..Len(norm.windows)}
        named == {pk \in UNION {{<<p, k>> : k \in 1..Len(s1.patches[p].token_relabels)} :
                                  p \in 1..Len(s1.patches)} :
                     /\ s1.patches[pk[1]].window_id \in window_ids
                     /\ s1.patches[pk[1]].token_relabels[pk[2]].token_id = token_id}
    IN  [pk \in named |-> s1.patches[pk[1]].token_relabels[pk[2]].new_speaker]

\* the number of proposals that differ from speaker sp
Disagreeing(token_id, sp) ==
    Cardinality({pk \in DOMAIN Proposals(token_id) : Proposals(token_id)[pk] # sp})

\* the token at position k was protected from the vote: confident, and too
\* few proposals of another speaker
KeptByStableSpan(before, k) ==
    /\ before.tokens[k].speaker_conf >= config.stable_span_confidence
    /\ Disagreeing(before.tokens[k].token_id, before.tokens[k].speaker)
          < config.min_windows_for_override

\* the token at position k was confident and all its proposals, enough of
\* them, were for the one other speaker sp
OverriddenTo(before, k, sp) ==
    /\ before.tokens[k].speaker_conf >= config.stable_span_confidence
    /\ sp # before.tokens[k].speaker
    /\ Disagreeing(before.tokens[k].token_id, before.tokens[k].speaker)
          >= config.min_windows_for_override
    /\ \A pk \in DOMAIN Proposals(before.tokens[k].token_id) :
          Proposals(before.tokens[k].token_id)[pk] = sp

\* C10 as stated (stable-span protection): a confident token with fewer than
\* min_windows_for_override proposals of another speaker has the same
\* speaker after execute_stage2 as before it; with at least that many, all
\* for one speaker, it has that speaker after execute_stage2.
StableSpanProtection ==
    stage = "stage2" =>
        LET before == hist.before2[1]
        IN  \A k \in 1..Len(before.tokens) :
               /\ KeptByStableSpan(before, k) =>
                     transcript.tokens[k].speaker = before.tokens[k].speaker
               /\ \A sp \in 0..(MaxSpeaker + 1) :
                     OverriddenTo(before, k, sp) => transcript.tokens[k].speaker = sp

\* the turns of the transcript as the voting loop left it
VotedTurns == RebuildTurns([hist.before2[1] EXCEPT !.tokens = hist.voted[1]]).turns

\* the token at position k lay, after the vote, in a turn shorter than
\* min_turn_duration_ms between two turns of one other speaker
AbsorbableAfterVote(k) ==
    \E t \in 2..(Len(VotedTurns) - 1) :
        /\ (k - 1) \in SeqToSet(VotedTurns[t].token_indices)
        /\ DurationMs(VotedTurns[t]) < config.min_turn_duration_ms
        /\ VotedTurns[t - 1].speaker = VotedTurns[t + 1].speaker

\* C10 (stable-span protection, of the vote): a confident token with fewer
\* than min_windows_for_override proposals of another speaker leaves the
\* voting loop of execute_stage2 with its speaker; with at least that many,
\* all for one speaker, it leaves the voting loop with that speaker.  After
\* execute_stage2 it has another speaker than the voting loop gave it only
\* if the vote relabeled some token and left this one in a turn shorter than
\* min_turn_duration_ms between two turns of one other speaker.
StableSpanVote ==
    stage = "stage2" =>
        LET before == hist.before2[1]
            voted == hist.voted[1]
        IN  \A k \in 1..Len(before.tokens) :
               /\ KeptByStableSpan(before, k) =>
                     voted[k].speaker = before.tokens[k].speaker
               /\ \A sp \in 0..(MaxSpeaker + 1) :
                     OverriddenTo(before, k, sp) => voted[k].speaker = sp
               /\ transcript.tokens[k].speaker # voted[k].speaker =>
                     /\ hist.result2[1].tokens_relabeled > 0
                     /\ AbsorbableAfterVote(k)

\* two proposals of the one other speaker have overridden a confident token,
\* and the relabel has survived the constraints
StableSpanVoteWitness ==
    /\ stage = "stage2"
    /\ \E k \in 1..Len(hist.before2[1].tokens) :
       \E sp \in 0..(MaxSpeaker + 1) :
          /\ OverriddenTo(hist.before2[1], k, sp)
          /\ hist.voted[1][k].speaker = sp
          /\ transcript.tokens[k].speaker = sp
          /\ Len(transcript.tokens) = 3

\* the candidates execute_stage2 collected for the token at position k
CandidatesAt(k) ==
    CandidatesOf(CollectCandidates(hist.before2[1], norm.windows, s1.patches),
                 hist.before2[1].tokens[k].token_id)

\* the speakers of a candidate list whose summed weight is the greatest
Argmax(cands) ==
    LET sps == {cands[j].speaker : j \in 1..Len(cands)}
    IN  {sp \in sps : \A o \in sps : SumWeights(cands, o) <= SumWeights(cands, sp)}

\* the token at position k was put to the vote
PutToVote(k) ==
    /\ CandidatesAt(k) # <<>>
    /\ ~StableSpanProtected(hist.before2[1].tokens[k], CandidatesAt(k), config)

\* C11 (weighted vote): for a token put to the vote, weighted_vote returns
\* a speaker whose summed candidate weights are greatest and, when several
\* speakers share the greatest sum, the one with the smallest speaker id.
WeightedVoteSmallestId ==
    stage = "stage2" =>
        \A k \in 1..Len(hist.before2[1].tokens) :
            PutToVote(k) =>
                /\ hist.voted[1][k].speaker \in Argmax(CandidatesAt(k))
                /\ \A sp \in Argmax(CandidatesAt(k)) : hist.voted[1][k].speaker <= sp

---------------------------------------------------------------------------
(* The stages called one after the other on any input, the empty one       *)
(* included, stage 2 with any patches a caller can hand it                 *)

\* short word lists, and the scenarios with one speaker for all their words
DirectInputs ==
    WordListsUpTo(2, WordChoices, {1000}, DurChoices, ConfChoices)
        \cup { [k \in 1..Len(scn) |-> [scn[k] EXCEPT !.speaker = sp]] :
                 scn \in {Scenario1, Scenario2, Scenario3, Scenario4},
                 sp \in 0..MaxSpeaker }

\* the inputs above, and word lists that are not in time order: two words,
\* the later one first
InitDirect ==
    \/ InitWith(DirectInputs, {DefaultConfig})
    \/ InitWith({<<ws[2], ws[1]>> : ws \in WordLists(2, {"so"}, {1000}, {2000}, {None})},
                {DefaultConfig})

\* patches for execute_stage2: one relabel for a window of the run, a patch
\* without relabels, or a patch that names no window of the run and a token
\* the transcript may not have
DirectPatches(tr, windows) ==
    (PatchLists(tr, windows, 1) \ {<<>>})
        \cup { <<PatchOf(Len(windows), rs)>> :
                 rs \in {<<>>} \cup { <<[token_id |-> t, new_speaker |-> sp]>> :
                                        t \in 0..Len(tr.tokens), sp \in 0..MaxSpeaker } }

\* apply_heuristics is public: the transcript it is handed may carry any
\* overlap flags
MarkOverlap ==
    /\ stage = "normalized"
    /\ \E S \in SUBSET (1..Len(transcript.tokens)) :
          LET tokens == [k \in 1..Len(transcript.tokens) |->
                           [transcript.tokens[k] EXCEPT !.is_overlap_region = (k \in S)]]
          IN  /\ tokens # transcript.tokens
              /\ transcript' = [transcript EXCEPT !.tokens = tokens]
    /\ UNCHANGED <<words, config, stage, norm, heur, s1, hist>>

\* execute_stage2 is handed patches after the heuristics
SupplyDirect ==
    /\ stage = "heuristics"
    /\ \E patches \in DirectPatches(transcript, norm.windows) :
          s1' = [s1 EXCEPT !.patches = patches]
    /\ stage' = "stage1_done"
    /\ UNCHANGED <<words, config, transcript, norm, heur, hist>>

NextDirect ==
    \/ Ingest
    \/ Normalize
    \/ MarkOverlap
    \/ CollapseMicroTurnsStep
    \/ ApplyBackchannelRulesStep
    \/ ApplyFloorHoldingStep
    \/ SupplyDirect
    \/ ExecuteStage2Step

SpecDirect == InitDirect /\ [][NextDirect]_vars

\* a heuristic rule, or apply_heuristics, reported no change
NoChange(r) ==
    r # NoResult =>
        /\ r[1].tokens_relabeled = 0
        /\ r[1].changed_indices = <<>>
        /\ r[1].needs_llm = FALSE

\* C12 (empty input): for a word list with no words, ingest yields a
\* transcript with no tokens, no turns and no speakers; normalize on it
\* yields no window and no problem zone; each heuristic rule and
\* apply_heuristics report no change, and execute_stage2 relabels nothing;
\* the transcript stays empty throughout.
EmptyInput ==
    (words = <<>> /\ stage # "start") =>
        /\ transcript.tokens = <<>>
        /\ transcript.turns = <<>>
        /\ transcript.speakers = <<>>
        /\ norm.windows = <<>>
        /\ norm.problem_window_indices = <<>>
        /\ norm.problem_zones = <<>>
        /\ NoChange(heur.micro)
        /\ NoChange(heur.backchannel)
        /\ NoChange(heur.floor)
        /\ NoChange(heur.result)
        /\ stage = "stage2" =>
              /\ hist.result2[1].tokens_relabeled = 0
              /\ hist.result2[1].conflicts_resolved = 0

\* execute_stage2 has run on the empty transcript with a patch that holds a
\* relabel
EmptyInputWitness ==
    /\ words = <<>>
    /\ stage = "stage2"
    /\ heur.result # NoResult
    /\ s1.patches[1].token_relabels # <<>>

\* the input is not empty and all its words carry one speaker
SingleSpeakerInput == words # <<>> /\ \A k \in 1..Len(words) : words[k].speaker = words[1].speaker

\* C13 (single-speaker transcript): when all words of a non-empty input carry
\* the same speaker, ingest produces exactly one turn, which holds every
\* token, and neither a heuristic rule nor apply_heuristics relabels a token:
\* tokens_relabeled = 0 and every token keeps the speaker, whatever the
\* words, confidences, overlap flags and timings are.
SingleSpeaker ==
    (SingleSpeakerInput
       /\ stage \in {"ingested", "normalized", "micro", "backchannel", "heuristics"}) =>
        /\ Len(transcript.turns) = 1
        /\ transcript.turns[1].token_indices = RangeSeq(0, Len(words))
        /\ \A k \in 1..Len(transcript.tokens) : transcript.tokens[k].speaker = words[1].speaker
        /\ \A r \in {heur.micro, heur.backchannel, heur.floor, heur.result} :
              r # NoResult => r[1].tokens_relabeled = 0 /\ r[1].changed_indices = <<>>

\* apply_heuristics has run on a single-speaker transcript with a backchannel
\* candidate in an overlap region, for which no listener was found
SingleSpeakerWitness ==
    /\ SingleSpeakerInput
    /\ stage = "heuristics"
    /\ Len(transcript.tokens) >= 2
    /\ heur.backchannel[1].needs_llm
    /\ \E k \in 1..Len(transcript.tokens) :
          /\ transcript.tokens[k].is_overlap_region
          /\ ToLowercase(transcript.tokens[k].word) \in config.backchannel_words
          /\ transcript.tokens[k].speaker_conf >= 70

---------------------------------------------------------------------------
(* Properties of the heuristic rules (SpecHeuristics) *)

\* the transcript collapse_micro_turns was entered with
MicroEntry == DetectOverlapRegions(Tokenize(words))

\* the tokens of the turn at position t of the entry turns have speaker sp
TurnHasSpeaker(t, sp) ==
    \A i \in SeqToSet(MicroEntry.turns[t].token_indices) :
        transcript.tokens[i + 1].speaker = sp

\* C14 (micro-turn collapse): of the turns present when collapse_micro_turns
\* is entered, one shorter than micro_turn_max_ms whose neighbours both
\* exist and have the same speaker S has all its tokens at speaker S
\* afterwards; one shorter than the limit whose neighbours both exist and
\* differ keeps its tokens' speakers, and needs_llm is true; one with a
\* missing neighbour, or not shorter than the limit, keeps its tokens'
\* speakers.
MicroTurnCollapse ==
    stage = "micro" =>
        LET turns == MicroEntry.turns
        IN  \A t \in 1..Len(turns) :
               LET micro == DurationMs(turns[t]) < config.micro_turn_max_ms
                   both == 1 < t /\ t < Len(turns)
               IN  /\ (micro /\ both /\ turns[t - 1].speaker = turns[t + 1].speaker) =>
                          TurnHasSpeaker(t, turns[t - 1].speaker)
                   /\ (micro /\ both /\ turns[t - 1].speaker # turns[t + 1].speaker) =>
                          /\ TurnHasSpeaker(t, turns[t].speaker)
                          /\ heur.micro[1].needs_llm
                   /\ (~micro \/ ~both) => TurnHasSpeaker(t, turns[t].speaker)

\* collapse_micro_turns has relabeled a micro-turn between two turns of one
\* speaker
MicroTurnCollapseWitness ==
    /\ stage = "micro"
    /\ heur.micro[1].tokens_relabeled > 0
    /\ Len(MicroEntry.turns) >= 3
    /\ \E t \in 2..(Len(MicroEntry.turns) - 1) :
          /\ DurationMs(MicroEntry.turns[t]) < config.micro_turn_max_ms
          /\ MicroEntry.turns[t - 1].speaker = MicroEntry.turns[t + 1].speaker
          /\ MicroEntry.turns[t].speaker # MicroEntry.turns[t - 1].speaker
          /\ TurnHasSpeaker(t, MicroEntry.turns[t - 1].speaker)

\* collapse_micro_turns has met a micro-turn between turns of two different
\* speakers
MicroTurnNeedsLlmWitness ==
    /\ stage = "micro"
    /\ heur.micro[1].needs_llm
    /\ heur.micro[1].tokens_relabeled = 0

\* the tokens apply_backchannel_rules was entered with
BackchannelEntry == CollapseMicroTurns(MicroEntry, config.micro_turn_max_ms).transcript.tokens

\* a candidate of the backchannel rule
IsBackchannelCandidate(t) ==
    /\ ToLowercase(t.word) \in config.backchannel_words
    /\ (t.is_overlap_region \/ t.speaker_conf < 70)

\* the tokens as they are when the candidate at position j is processed: the
\* candidates before it have been processed, the others not yet
WhenProcessed(j) ==
    [k \in 1..Len(BackchannelEntry) |->
        IF k < j /\ IsBackchannelCandidate(BackchannelEntry[k])
        THEN [BackchannelEntry[k] EXCEPT !.speaker = transcript.tokens[k].speaker]
        ELSE BackchannelEntry[k]]

\* token t intersects the window of +/- ms around token c
Intersects(t, c, ms) ==
    /\ t.start_ms < c.end_ms + ms
    /\ t.end_ms > Max(0, c.start_ms - ms)

\* the number of tokens of speaker sp, other than the one at position j, that
\* intersect the +/-5 s window around it
TokensAround(T, j, sp) ==
    Cardinality({k \in (1..Len(T)) \ {j} : Intersects(T[k], T[j], 5000) /\ T[k].speaker = sp})

\* the speakers with the most tokens around position j
MostTokensAround(T, j) ==
    {sp \in {T[k].speaker : k \in 1..Len(T)} :
        /\ TokensAround(T, j, sp) > 0
        /\ \A o \in {T[k].speaker : k \in 1..Len(T)} :
              TokensAround(T, j, o) <= TokensAround(T, j, sp)}

\* the speakers other than h of the tokens that intersect the +/-10 s window
\* around position j
ListenersAround(T, j, h) ==
    {T[k].speaker : k \in {i \in 1..Len(T) : Intersects(T[i], T[j], 10000) /\ T[i].speaker # h}}

BackchannelNoListenerWitness ==
    /\ stage = "backchannel"
    /\ Len(BackchannelEntry) = 3
    /\ IsBackchannelCandidate(BackchannelEntry[2])
    /\ BackchannelEntry[1].speaker # BackchannelEntry[2].speaker
    /\ MostTokensAround(BackchannelEntry, 2) = {BackchannelEntry[2].speaker}
    /\ ListenersAround(BackchannelEntry, 2, BackchannelEntry[2].speaker) = {}
    /\ heur.backchannel[1].needs_llm

\* the floor state after the update for the token at position i: the updates
\* read each token's speaker before the token is looked at
RECURSIVE FloorStateAt(_, _)
FloorStateAt(tokens, i) ==
    IF i = 0 THEN NewFloorState
    ELSE FloorUpdate(FloorStateAt(tokens, i - 1), tokens[i].speaker,
                     DurationMs(tokens[i]), tokens[i].start_ms)

\* the length of the maximal run of consecutive tokens of T around position i
\* that share its speaker
RunLength(T, i) ==
    Cardinality({k \in 1..Len(T) :
                    \A m \in (IF k < i THEN k..i ELSE i..k) : T[m].speaker = T[i].speaker})

\* apply_floor_holding, entered with tokens before and left with tokens
\* after and the flag needs_llm, treated the rapid floor flips as claim C16
\* says
FloorFlipsTreated(before, after, needs_llm) ==
    \A i \in 1..Len(before) :
        LET T == [k \in 1..Len(before) |-> IF k < i THEN after[k] ELSE before[k]]
        IN  \E h \in FloorHolder(FloorStateAt(before, i), config.min_floor_score) :
               (h # None /\ T[i].speaker # h /\ RunLength(T, i) <= 2) =>
                   IF /\ T[i].speaker_conf < 80
                      /\ 1 < i /\ i < Len(T)
                      /\ T[i - 1].speaker = h
                      /\ T[i + 1].speaker = h
                   THEN after[i].speaker = h
                   ELSE after[i].speaker = before[i].speaker /\ needs_llm

\* C16 (floor-holding): for every token that is a rapid floor flip (its
\* speaker differs from the current floor holder and its maximal
\* same-speaker run has length <= 2), if speaker_conf < 0.8 and both
\* immediate neighbours carry the floor holder's speaker the token is
\* relabeled to the floor holder; in every other case the token keeps its
\* speaker and needs_llm is set to true.
FloorHoldingRule ==
    [][(stage = "backchannel" /\ stage' = "heuristics") =>
          FloorFlipsTreated(transcript.tokens, transcript'.tokens, heur'.floor[1].needs_llm)]_vars

---------------------------------------------------------------------------
(* Properties of build_windows and validate_patch (SpecValidate) *)

\* the window starts first_token.start_ms + k * stride_ms that lie before the
\* end of the last token
GridStarts ==
    LET first == transcript.tokens[1].start_ms
        last_end == transcript.tokens[Len(transcript.tokens)].end_ms
    IN  {w \in {first + k * config.stride_ms : k \in 0..(last_end \div config.stride_ms)} :
            w < last_end}

\* the 0-based indices of the tokens that start in [from, to)
StartingIn(from, to) ==
    {i \in 0..(Len(transcript.tokens) - 1) :
        /\ from <= transcript.tokens[i + 1].start_ms
        /\ transcript.tokens[i + 1].start_ms < to}

\* s lists the members of S once each, ascending
ListsAscending(s, S) ==
    /\ Len(s) = Cardinality(S)
    /\ SeqToSet(s) = S
    /\ \A j \in 1..(Len(s) - 1) : s[j] < s[j + 1]

\* C17 (window generation): the windows of build_windows are, in ascending
\* order, those that start at first_token.start_ms + k * stride_ms before the
\* end of the last token and hold a token; a window starting at w has as
\* editable tokens exactly those with w <= start_ms < w + window_size_ms, as
\* prefix anchor exactly those with w - anchor_ms <= start_ms < w and as suffix
\* anchor exactly those with w + size <= start_ms < w + size + anchor_ms.  With
\* 45 s windows and 15 s stride the recording of 120 s gives 8 windows at 0,
\* 15, ..., 105 s, and no token is editable in more than 3 windows.
WindowGeneration ==
    (stage \notin {"start", "ingested"} /\ transcript.tokens # <<>>) =>
        LET size == config.window_size_ms
            anchor == config.anchor_size_ms
        IN  /\ ListsAscending([k \in 1..Len(norm.windows) |-> norm.windows[k].start_ms],
                              {w \in GridStarts : StartingIn(w, w + size) # {}})
            /\ \A k \in 1..Len(norm.windows) :
                  LET w == norm.windows[k].start_ms
                  IN  /\ norm.windows[k].end_ms = w + size
                      /\ ListsAscending(norm.windows[k].token_indices, StartingIn(w, w + size))
                      /\ ListsAscending(norm.windows[k].anchor_prefix_indices,
                                        StartingIn(w - anchor, w))
                      /\ ListsAscending(norm.windows[k].anchor_suffix_indices,
                                        StartingIn(w + size, w + size + anchor))
            /\ (size = 45000 /\ config.stride_ms = 15000) =>
                  /\ \A i \in 0..(Len(transcript.tokens) - 1) :
                        Cardinality({k \in 1..Len(norm.windows) :
                                        i \in SeqToSet(norm.windows[k].token_indices)}) <= 3
                  /\ words = Transcript120 =>
                        [k \in 1..Len(norm.windows) |-> norm.windows[k].start_ms]
                           = <<0, 15000, 30000, 45000, 60000, 75000, 90000, 105000>>

\* the recording of 120 s has its 8 windows, the token at 47 s being editable
\* in those that start at 15, 30 and 45 s
WindowGenerationWitness ==
    /\ stage = "normalized"
    /\ words = Transcript120
    /\ Len(norm.windows) = 8
    /\ {norm.windows[k].start_ms :
          k \in {j \in 1..Len(norm.windows) : 3 \in SeqToSet(norm.windows[j].token_indices)}}
         = {15000, 30000, 45000}

\* a window of the grid without a token was dropped, and a window has tokens
\* in both its anchors
WindowDroppedWitness ==
    /\ stage = "normalized"
    /\ transcript.tokens # <<>>
    /\ Len(norm.windows) < Cardinality(GridStarts)
    /\ \E k \in 1..Len(norm.windows) :
          /\ norm.windows[k].anchor_prefix_indices # <<>>
          /\ norm.windows[k].anchor_suffix_indices # <<>>

\* the five grounds on which validate_patch rejects a patch for a window
RejectionGrounds(v) ==
    LET count == Len(v.patch.token_relabels)
        n == Len(v.window.token_indices)
    IN  << v.patch.violations # <<>>,
           \E k \in 1..count :
               v.patch.token_relabels[k].token_id \notin TokenIdsAt(v.window.token_indices),
           \E k \in 1..count :
               v.patch.token_relabels[k].new_speaker \notin config.allowed_speakers,
           100 * (count - 1) >= n * config.max_edit_budget_percent,
           ComputeCostAfterPatch(transcript, v.window, v.patch)
               - ComputeCost(transcript, v.window) > config.max_cost_increase >>

\* C18 (validator decision): validate_patch returns is_valid = true exactly
\* when none of these holds: violations is non-empty; a relabel's token_id is
\* not an editable token of the window; a new_speaker is not in
\* allowed_speakers; the relabel count exceeds the edit budget
\* ceil(n * percent / 100); the cost increase exceeds max_cost_increase.  A
\* patch with no relabels and no violations is valid, and a patch with a
\* self-reported violation is invalid.
ValidatorDecision ==
    stage = "validated" =>
        LET v == hist.validated[1]
        IN  /\ v.is_valid <=> (\A g \in 1..5 : ~RejectionGrounds(v)[g])
            /\ (v.patch.token_relabels = <<>> /\ v.patch.violations = <<>>) => v.is_valid
            /\ v.patch.violations # <<>> => ~v.is_valid

\* a patch was rejected on the ground of its cost increase alone
ValidatorDecisionWitness ==
    /\ stage = "validated"
    /\ ~hist.validated[1].is_valid
    /\ RejectionGrounds(hist.validated[1]) = <<FALSE, FALSE, FALSE, FALSE, TRUE>>

\* the LM calls stage 1 may still make: max_retries + 1 for each problem
\* window not yet begun, less the calls already made for the current one
CallsLeft(st, progress) ==
    IF st # "stage1" THEN 0
    ELSE (Len(norm.problem_window_indices) - progress.pos) * (config.max_retries + 1)
             - progress.attempt

\* C19 (stage-1 retry bound): for each problem window stage 1 makes at most
\* max_retries + 1 LM calls; a transport error and a validation failure each
\* consume one attempt; no further call is made for a window after its first
\* valid patch; the processing of every window terminates (each call lowers
\* the number of calls that may still be made, which is never negative); the
\* tokens and turns of the transcript are unchanged throughout stage 1.
RetryBound ==
    [][stage = "stage1" =>
          /\ s1.pos < Len(norm.problem_window_indices)
          /\ s1.attempt + 1 <= config.max_retries + 1
          /\ \/ /\ stage' = "stage1"
                /\ s1'.pos = s1.pos
                /\ s1'.attempt = s1.attempt + 1
                /\ s1'.attempt + 1 <= config.max_retries + 1
                /\ s1'.patches = s1.patches
                /\ s1'.validation_failures = s1.validation_failures
             \/ /\ s1'.pos = s1.pos + 1
                /\ s1'.attempt = 0
                /\ stage' = IF s1'.pos = Len(norm.problem_window_indices)
                            THEN "stage1_done" ELSE "stage1"
                /\ \/ s1'.validation_failures = s1.validation_failures
                   \/ /\ s1.attempt = config.max_retries
                      /\ s1'.patches = s1.patches
          /\ CallsLeft(stage', s1') < CallsLeft(stage, s1)
          /\ CallsLeft(stage', s1') >= 0
          /\ transcript' = transcript
          /\ norm' = norm
    ]_vars

\* the last permitted call for the second problem window is about to be made
RetryBoundWitness ==
    /\ stage = "stage1"
    /\ s1.pos = 1
    /\ s1.attempt = config.max_retries
    /\ s1.validation_failures = 1

\* C20 (failure isolation): a window whose every attempt fails (transport
\* error or invalid patch) contributes no patch, does not abort stage 1 (the
\* remaining windows are processed and execute_stage1 returns) and is counted
\* as one failure; if every LM call of a run fails, the token speakers and
\* turns stay those the heuristics produced up to the end of the run.
\* (LmError holds of every step that is a failed attempt, whatever its cause:
\* an invalid patch has the same effect as a transport error.)
FailureIsolation ==
    [][/\ (stage = "stage1" /\ LmError /\ s1.attempt = config.max_retries) =>
              /\ s1'.patches = s1.patches
              /\ s1'.validation_failures = s1.validation_failures + 1
              /\ s1'.pos = s1.pos + 1
              /\ stage' = IF s1.pos + 1 < Len(norm.problem_window_indices)
                          THEN "stage1" ELSE "stage1_done"
       /\ stage = "stage1" =>
              /\ s1'.validation_failures - s1.validation_failures \in {0, 1}
              /\ Len(s1'.patches) + s1'.validation_failures <= s1'.pos
       /\ ( /\ stage \in {"stage1", "stage1_done"}
            /\ s1'.validation_failures = Len(norm.problem_window_indices) ) =>
              /\ s1'.patches = <<>>
              /\ transcript' = transcript
              /\ stage' \in {"stage1_done", "done"}
    ]_vars

\* a run of three problem windows in which every LM call failed has ended
FailureIsolationWitness ==
    /\ stage = "done"
    /\ Len(norm.problem_window_indices) = 3
    /\ s1.validation_failures = 3
    /\ s1.patches = <<>>

\* a window failed and a later window still contributed a patch
FailureThenPatchWitness ==
    /\ stage = "stage1_done"
    /\ s1.validation_failures = 1
    /\ Len(s1.patches) = 1
    /\ s1.patches[1].window_id = 1

---------------------------------------------------------------------------
(* Invariants of the transcript across the stages *)

\* C21 (speakers set): at every stage boundary (after ingest, after each
\* heuristic rule, after execute_stage2) transcript.speakers is exactly the
\* sorted list of the speaker values that occur on the tokens.
SpeakersSet ==
    stage # "start" =>
        transcript.speakers
            = SortedSeq({transcript.tokens[k].speaker : k \in 1..Len(transcript.tokens)})

\* the speaker S of the turns before and after the turn of VotedTurns that
\* holds the token at position k, if that turn is shorter than
\* min_turn_duration_ms and both turns exist and share S, not the turn's own
\* speaker; None otherwise
AbsorbingSpeaker(k) ==
    LET holds == {t \in 1..Len(VotedTurns) : (k - 1) \in SeqToSet(VotedTurns[t].token_indices)}
        t == CHOOSE t \in holds : TRUE
    IN  IF /\ holds # {}
           /\ VotedTurns[t].end_ms - VotedTurns[t].start_ms < config.min_turn_duration_ms
           /\ t > 1
           /\ t < Len(VotedTurns)
           /\ VotedTurns[t - 1].speaker = VotedTurns[t + 1].speaker
           /\ VotedTurns[t - 1].speaker # VotedTurns[t].speaker
        THEN VotedTurns[t - 1].speaker
        ELSE None

\* C22 (stage-2 minimum-turn enforcement): in every call of execute_stage2,
\* after the vote and the turn rebuild, a turn is relabeled by the
\* constraint step iff its duration_ms < min_turn_duration_ms and its
\* previous and next turns both exist and share a speaker S different from
\* its own; all its tokens then get speaker S, and the turns are rebuilt
\* afterwards; the step runs also when the vote relabeled no token.
MinTurnEnforcement ==
    stage = "stage2" =>
        /\ \A k \in 1..Len(transcript.tokens) :
              transcript.tokens[k].speaker
                  = IF AbsorbingSpeaker(k) # None THEN AbsorbingSpeaker(k)
                    ELSE hist.voted[1][k].speaker
        /\ transcript.turns = RebuildTurns(transcript).turns

\* the transcript with the relabels of the patch applied to its tokens, and
\* the turns these labels form
Relabeled(tr, patch) ==
    RebuildTurns([tr EXCEPT !.tokens =
        [k \in 1..Len(tr.tokens) |->
            [tr.tokens[k] EXCEPT !.speaker =
                RelabelOf(patch.token_relabels, tr.tokens[k].token_id, tr.tokens[k].speaker)]]])

\* C23 (validator cost delta): the cost increase that validate_patch
\* compares with max_cost_increase equals cost(labels with the patch's
\* relabels applied) - cost(current labels), where cost = 5 * (speaker
\* changes between consecutive editable window tokens) + 2 * (turns shorter
\* than 700 ms intersecting the window), both terms evaluated on the
\* respective labelling: the short-turn term of cost-after on the turns that
\* the patched labels form.
CostDelta ==
    stage = "validated" =>
        LET v == hist.validated[1]
        IN  ComputeCostAfterPatch(transcript, v.window, v.patch)
                - ComputeCost(transcript, v.window)
              = ComputeCost(Relabeled(transcript, v.patch), v.window)
                  - ComputeCost(transcript, v.window)

\* the 0-based positions, ascending, of the tokens that start in [w, w + 10 s)
StartingInDetection(w) ==
    FilterSeq(RangeSeq(0, Len(transcript.tokens)),
              {i \in 0..(Len(transcript.tokens) - 1) :
                  /\ transcript.tokens[i + 1].start_ms >= w
                  /\ transcript.tokens[i + 1].start_ms < w + 10000})

\* the starts of the detection windows, 5 s apart, up to the last token
DetectionStarts ==
    IF transcript.tokens = <<>> THEN {}
    ELSE {5000 * j : j \in 0..(transcript.tokens[Len(transcript.tokens)].start_ms \div 5000)}

\* the speaker changes between consecutive tokens starting in [w, w + 10 s)
\* exceed the threshold
Jittery(w) ==
    LET idx == StartingInDetection(w)
    IN  Cardinality({k \in 1..(Len(idx) - 1) :
            transcript.tokens[idx[k] + 1].speaker # transcript.tokens[idx[k + 1] + 1].speaker})
          > config.max_switches_per_10s

\* the zone the claim prescribes for the detection window at w
JitterZone(w) ==
    LET idx == StartingInDetection(w)
    IN  [ start_ms |-> transcript.tokens[idx[1] + 1].start_ms,
          end_ms   |-> transcript.tokens[idx[Len(idx)] + 1].end_ms,
          problem_type  |-> "SpeakerJitter",
          token_indices |-> idx ]

\* C24 (speaker-jitter detection): for every transcript, whatever the
\* start_ms of its first token, each 10-second detection window [w, w + 10 s),
\* stepped by 5 s across the transcript, in which the number of speaker
\* changes between consecutive tokens starting in the window exceeds
\* max_switches_per_10s yields a SpeakerJitter zone with exactly those
\* tokens, from the first one's start_ms to the last one's end_ms; windows
\* at or below the threshold yield no zone.
JitterDetection ==
    stage \in {"normalized", "validated"} =>
        LET found == {z \in SeqToSet(norm.problem_zones) : z.problem_type = "SpeakerJitter"}
        IN  found = {JitterZone(w) : w \in {x \in DetectionStarts : Jittery(x)}}

\* the windows whose patches propose speaker sp for the token token_id
WindowsProposing(token_id, sp) ==
    {s1.patches[pk[1]].window_id :
        pk \in {q \in DOMAIN Proposals(token_id) : Proposals(token_id)[q] = sp}}

\* C25 (stable-span override needs agreeing windows): a token with
\* speaker_conf >= stable_span_confidence is relabeled by the stage-2 vote
\* only if at least min_windows_for_override distinct windows proposed one
\* and the same speaker different from its current speaker; a single
\* window's patch, even one listing the token several times, or several
\* windows proposing different speakers cannot override it.
StableSpanOverride ==
    stage = "stage2" =>
        LET before == hist.before2[1]
        IN  \A k \in 1..Len(before.tokens) :
               ( /\ before.tokens[k].speaker_conf >= config.stable_span_confidence
                 /\ hist.voted[1][k].speaker # before.tokens[k].speaker ) =>
                   \E sp \in (0..(MaxSpeaker + 1)) \ {before.tokens[k].speaker} :
                       Cardinality(WindowsProposing(before.tokens[k].token_id, sp))
                           >= config.min_windows_for_override

\* C26 (token order): in the transcript produced by ingest and in every
\* later stage, tokens are in non-decreasing start_ms order, with tokens of
\* equal start_ms in increasing original_index order, for every input word
\* list.
TokenOrder ==
    \A k \in 1..(Len(transcript.tokens) - 1) :
        \/ transcript.tokens[k].start_ms < transcript.tokens[k + 1].start_ms
        \/ /\ transcript.tokens[k].start_ms = transcript.tokens[k + 1].start_ms
           /\ transcript.tokens[k].original_index < transcript.tokens[k + 1].original_index

\* C27 (window coverage): for every non-empty transcript and every config
\* with 0 < stride_ms <= window_size_ms, each token index is in the editable
\* token_indices of at least one generated window, also when the transcript
\* consists of zero-duration tokens or of a single token.
WindowCoverage ==
    ( /\ stage \in {"normalized", "validated"}
      /\ transcript.tokens # <<>>
      /\ 0 < config.stride_ms
      /\ config.stride_ms <= config.window_size_ms ) =>
        \A i \in 0..(Len(transcript.tokens) - 1) :
            \E w \in 1..Len(norm.windows) : i \in SeqToSet(norm.windows[w].token_indices)

\* C28 (patch-window binding): every patch collected by stage 1 while
\* processing window W has window_id equal to W.window_id, so that
\* execute_stage2 weights its relabels by the proximity to the centre of the
\* window against which the patch was validated and discards no validated
\* patch for naming an unknown window.
PatchWindowBinding ==
    [][(stage = "stage1" /\ Len(s1'.patches) = Len(s1.patches) + 1) =>
          s1'.patches[Len(s1'.patches)].window_id = CurrentWindow.window_id]_vars

\* number of speaker changes between consecutive tokens
SpeakerChanges(tokens) ==
    Cardinality({k \in 1..(Len(tokens) - 1) : tokens[k].speaker # tokens[k + 1].speaker})

\* C29 (micro-turn collapse never adds speaker changes): the number of turns,
\* equivalently of speaker changes between consecutive tokens, after
\* collapse_micro_turns is less than or equal to the number before, also
\* when several adjacent turns are micro-turns and are relabeled in the same
\* call from the same stale turn list.
MicroTurnsNoNewChanges ==
    stage = "micro" =>
        /\ Len(transcript.turns) <= Len(MicroEntry.turns)
        /\ SpeakerChanges(transcript.tokens) <= SpeakerChanges(MicroEntry.tokens)
        /\ transcript.tokens # <<>> =>
              /\ Len(transcript.turns) = SpeakerChanges(transcript.tokens) + 1
              /\ Len(MicroEntry.turns) = SpeakerChanges(MicroEntry.tokens) + 1

\* two adjacent micro-turns were both relabeled in the one call
MicroTurnsNoNewChangesWitness ==
    /\ stage = "micro"
    /\ \E t \in 1..(Len(MicroEntry.turns) - 1) :
          /\ DurationMs(MicroEntry.turns[t]) < config.micro_turn_max_ms
          /\ DurationMs(MicroEntry.turns[t + 1]) < config.micro_turn_max_ms
          /\ ~TurnHasSpeaker(t, MicroEntry.turns[t].speaker)
          /\ ~TurnHasSpeaker(t + 1, MicroEntry.turns[t + 1].speaker)
    /\ Len(transcript.turns) < Len(MicroEntry.turns)

\* a micro-turn of several tokens was relabeled as a whole
MicroTurnOfThreeWitness ==
    /\ stage = "micro"
    /\ \E t \in 1..Len(MicroEntry.turns) :
          /\ Len(MicroEntry.turns[t].token_indices) = 3
          /\ ~TurnHasSpeaker(t, MicroEntry.turns[t].speaker)

\* C30 (stage-2 postcondition): whenever execute_stage2 returns after
\* relabeling at least one token, the resulting turn list contains no turn
\* with duration_ms < min_turn_duration_ms whose previous and next turns
\* have the same speaker: a single absorption pass leaves nothing that the
\* same rule would still absorb.
Stage2Postcondition ==
    (stage = "stage2" /\ hist.result2[1].tokens_relabeled > 0) =>
        \A t \in 2..(Len(transcript.turns) - 1) :
            ~ /\ transcript.turns[t].end_ms - transcript.turns[t].start_ms
                    < config.min_turn_duration_ms
              /\ transcript.turns[t - 1].speaker = transcript.turns[t + 1].speaker

====
